---- MODULE Spec2Model ----
(***************************************************************************)
(* Model of shutter-control: the time-based position tracker               *)
(* (position_tracker.py), the command orchestrator (__main__.py) and the   *)
(* status decoding of the EnOcean gateway (enocean_gateway.py).            *)
(*                                                                         *)
(* Time is counted in seconds and observed every Stride seconds.           *)
(* Positions are exact rationals: a position is stored as a whole number   *)
(* of 1/PosUnit percentage points, PosUnit being chosen so that one second *)
(* of travel in either direction is a whole number of units.  Drive times  *)
(* handed to the gateway are stored in 1/TimeUnit seconds for the same     *)
(* reason.  A handler runs at a single instant: every time.monotonic() it  *)
(* reads returns now.                                                      *)
(***************************************************************************)
EXTENDS Integers, Sequences, FiniteSets, TLC

Min(a, b) == IF a <= b THEN a ELSE b
Max(a, b) == IF a >= b THEN a ELSE b
Abs(a) == IF a >= 0 THEN a ELSE 0 - a

\* ------------------------------------------------------------------ bounds
\* Seconds the clock advances between two observed instants.
Stride == 2
\* Tracker calls made in a run of TrackerSpec.
MaxCalls == 3
\* MQTT messages and radio packets handled in a run of Spec.
MaxEvents == 2
\* Most shutters of a configuration at startup.
MaxShutters == 2
\* Radio telegrams received in a run of ReceiveSpec.
MaxTelegrams == 1

\* ----------------------------------------------------------- configuration
\* ShutterConfig.full_open_time and full_close_time of the shutters, seconds.
FullOpenTime == 8
FullCloseTime == 10

\* ------------------------------------------------------- program constants
COMMAND_ACK_TIMEOUT == 5
DefaultTravelTime == 25

\* Two acknowledgement timeouts fit in a run of Spec, a full stroke in a run
\* of TrackerSpec.
MaxTime == 2 * COMMAND_ACK_TIMEOUT + Stride
TrackerMaxTime == Max(FullOpenTime, FullCloseTime)

\* ------------------------------------------------------------------- units
PosUnit == 2 * FullOpenTime * FullCloseTime
Pct(n) == n * PosUnit
HalfPct == PosUnit \div 2
TimeUnit == 100 * PosUnit

\* config.shutters, in the order of the configuration file; the safe ids.
ShutterOrder == <<"s1", "s2">>
Shutters == {ShutterOrder[i] : i \in 1..Len(ShutterOrder)}
\* ShutterConfig.invert_direction of each configured shutter.
invert_direction == [s \in Shutters |-> s = "s2"]
\* ShutterConfig.full_open_time / full_close_time (seconds).
full_open_time == [s \in Shutters |-> FullOpenTime]
full_close_time == [s \in Shutters |-> FullCloseTime]

\* MotionState
MotionState == {"STOPPED", "OPENING", "CLOSING"}
\* An optional value (float | None) is a sequence of length 0 or 1.
None == <<>>
Some(x) == <<x>>

\* Positions a persistence file may hold at startup: values save_positions
\* wrote in an earlier run (moving shutters are saved unsnapped).
InitPositions == {HalfPct, Pct(50), Pct(100) - HalfPct, Pct(100)}
InitPairs == {<<Pct(50), Pct(100)>>, <<Pct(100) - HalfPct, HalfPct>>}
\* Numeric targets handed to start_moving / set_position, in percent.
Targets == {0, 1, 50, 100}

VARIABLES
    now,               \* time.monotonic()
    shutters,          \* PositionTracker._shutters: safe id -> ShutterState
    positions_file,    \* contents of the persistence file: safe id -> position
    notified,          \* _on_update calls made by the last handler
    pending_commands,  \* _pending_commands, as the dict's items in order
    sent,              \* telegrams handed to the communicator by the last handler
    stop_ids,          \* list returned by check_targets in the last handler
    rx_alive,          \* the enocean-rx thread is still running
    ticked,            \* _position_check_loop has run since the clock advanced
    last_op,           \* the handler or tracker method that ran last
    calls,             \* number of handler runs counted against the bound
    pc,                \* where each thread of control stands
    frame,             \* the local variables of each thread of control
    tables,            \* _shutters_by_safe_id, _id_to_safe, _sender_offsets
    started,           \* the components constructed and running
    file_access,       \* what the file system answers for the persistence path
    base_id            \* EnOceanGateway._base_id: the address of the dongle

\* The threads of control: _run and the _position_check_loop task on the
\* asyncio loop, the MQTT client's network thread, the enocean-rx thread;
\* what they have built, and the file system they run on.
life == <<pc, frame, tables, started, file_access, base_id>>

vars == <<now, shutters, positions_file, notified, pending_commands, sent,
          stop_ids, rx_alive, ticked, last_op, calls, pc, frame, tables,
          started, file_access, base_id>>

\* ShutterState() as register_shutter creates it.
ShutterState ==
    [position |-> 0, motion |-> "STOPPED", move_start_time |-> 0,
     move_start_position |-> 0, target_position |-> None,
     full_travel_time |-> DefaultTravelTime]

\* ---------------------------------------------------------------- tracker
\* The tracker's state threaded through its methods:
\*   sh    _shutters, file  the persistence file, notes  _on_update calls.

\* _interpolate without the clamping to [0,100].
_interpolate_unclamped(T, sid, t) ==
    LET st == T.sh[sid]
        elapsed == t - st.move_start_time
        travel_percent == (elapsed * 100 * PosUnit) \div st.full_travel_time
    IN  IF st.motion = "OPENING"
        THEN [T EXCEPT !.sh[sid].position = st.move_start_position + travel_percent]
        ELSE IF st.motion = "CLOSING"
        THEN [T EXCEPT !.sh[sid].position = st.move_start_position - travel_percent]
        ELSE T

\* PositionTracker._interpolate at time t.
_interpolate(T, sid, t) ==
    LET st == T.sh[sid]
        elapsed == t - st.move_start_time
        travel_percent == (elapsed * 100 * PosUnit) \div st.full_travel_time
    IN  IF st.motion = "OPENING"
        THEN [T EXCEPT !.sh[sid].position =
                 Min(Pct(100), st.move_start_position + travel_percent)]
        ELSE IF st.motion = "CLOSING"
        THEN [T EXCEPT !.sh[sid].position =
                 Max(Pct(0), st.move_start_position - travel_percent)]
        ELSE T

\* A number in the JSON text of the persistence file: the whole part and the
\* fraction in units of 1/JsonScale.  json.dump writes a float with as many
\* digits as it takes to read the same float back; the positions of this
\* model, whole numbers of 1/PosUnit, take five.
JsonScale == 10^5

\* json_dump keeping one decimal, as "%.1f" would write the number.
json_dump_one_decimal(x) ==
    [whole |-> x \div PosUnit,
     frac |-> (((x % PosUnit) * 10) \div PosUnit) * (JsonScale \div 10)]

\* json.dump of one float.
json_dump(x) ==
    [whole |-> x \div PosUnit,
     frac |-> ((x % PosUnit) * JsonScale) \div PosUnit]

\* float(pos) of a number read by json.load.
float(pos) ==
    pos.whole * PosUnit + (pos.frac * PosUnit) \div JsonScale

\* PositionTracker.save_positions
save_positions(T) ==
    [T EXCEPT !.file = [s \in DOMAIN T.sh |-> json_dump(T.sh[s].position)]]

\* round(x) of a position x: to the nearest whole number, a tie going to the
\* even one.
round(x) ==
    LET whole == x \div PosUnit
        rest == x % PosUnit
    IN  IF 2 * rest < PosUnit THEN whole
        ELSE IF 2 * rest > PosUnit THEN whole + 1
        ELSE IF whole % 2 = 0 THEN whole
        ELSE whole + 1

\* ha_state calling a shutter open when its published position is not 0.
ha_state_of_rounded(st) ==
    IF st.motion = "OPENING" THEN "opening"
    ELSE IF st.motion = "CLOSING" THEN "closing"
    ELSE IF round(st.position) > 0 THEN "open" ELSE "closed"

\* ShutterState.ha_state
ha_state(st) ==
    IF st.motion = "OPENING" THEN "opening"
    ELSE IF st.motion = "CLOSING" THEN "closing"
    ELSE IF st.position > 0 THEN "open" ELSE "closed"

\* ShutterState.ha_position
ha_position(st) ==
    Max(0, Min(100, round(st.position)))

\* _notify calling _on_update twice.
_notify_twice(T, sid) ==
    LET note == [shutter_id |-> sid, motion |-> T.sh[sid].motion,
                 ha_state |-> ha_state(T.sh[sid]),
                 ha_position |-> ha_position(T.sh[sid])]
    IN  [T EXCEPT !.notes = Append(Append(@, note), note)]

\* PositionTracker._notify: the call of _on_update with the key and the
\* state, and the view _handle_position_update publishes of that state.
_notify(T, sid) ==
    [T EXCEPT !.notes =
        Append(@, [shutter_id |-> sid, motion |-> T.sh[sid].motion,
                   ha_state |-> ha_state(T.sh[sid]),
                   ha_position |-> ha_position(T.sh[sid])])]

\* get_state returning the state as it is stored.
get_state_stored(T, sid, t) ==
    T

\* PositionTracker.get_state: a side-effecting read.
get_state(T, sid, t) ==
    IF sid \in DOMAIN T.sh /\ T.sh[sid].motion # "STOPPED"
    THEN _interpolate(T, sid, t)
    ELSE T

\* start_moving taking the stored position of a moving shutter as it is,
\* without interpolating first.
start_moving_stale(T, sid, direction, target_position, t) ==
    IF sid \notin DOMAIN T.sh
    THEN T
    ELSE _notify([T EXCEPT !.sh[sid] =
                     [@ EXCEPT !.motion = direction,
                               !.move_start_time = t,
                               !.move_start_position = T.sh[sid].position,
                               !.target_position = target_position,
                               !.full_travel_time =
                                   IF direction = "OPENING"
                                   THEN full_open_time[sid]
                                   ELSE full_close_time[sid]]], sid)

\* PositionTracker.start_moving
start_moving(T, sid, direction, target_position, t) ==
    IF sid \notin DOMAIN T.sh
    THEN T
    ELSE LET T1 == IF T.sh[sid].motion # "STOPPED" THEN _interpolate(T, sid, t) ELSE T
             T2 == [T1 EXCEPT !.sh[sid] =
                       [@ EXCEPT !.motion = direction,
                                 !.move_start_time = t,
                                 !.move_start_position = T1.sh[sid].position,
                                 !.target_position = target_position,
                                 !.full_travel_time =
                                     IF direction = "OPENING"
                                     THEN full_open_time[sid]
                                     ELSE full_close_time[sid]]]
         IN  _notify(T2, sid)

\* stop leaving the position where it was interpolated, near a limit or not.
stop_unsnapped(T, sid, t) ==
    IF sid \notin DOMAIN T.sh
    THEN T
    ELSE LET T1 == IF T.sh[sid].motion # "STOPPED" THEN _interpolate(T, sid, t) ELSE T
         IN  _notify(save_positions(
                 [T1 EXCEPT !.sh[sid] = [@ EXCEPT !.motion = "STOPPED",
                                                  !.target_position = None]]), sid)

\* PositionTracker.stop
stop(T, sid, t) ==
    IF sid \notin DOMAIN T.sh
    THEN T
    ELSE LET T1 == IF T.sh[sid].motion # "STOPPED" THEN _interpolate(T, sid, t) ELSE T
             p == T1.sh[sid].position
             T2 == [T1 EXCEPT !.sh[sid] =
                       [@ EXCEPT !.motion = "STOPPED",
                                 !.target_position = None,
                                 !.position = IF p < Pct(1) THEN Pct(0)
                                              ELSE IF p > Pct(99) THEN Pct(100)
                                              ELSE p]]
         IN  _notify(save_positions(T2), sid)

\* limit_reached finding no shutter at a limit.
limit_reached_never(st, motion) ==
    FALSE

\* The tests of check_targets that a shutter st, interpolated, has reached
\* the physical limit of the given direction of travel.
limit_reached(st, motion) ==
    /\ st.motion = motion
    /\ \/ motion = "CLOSING" /\ st.position <= Pct(0)
       \/ motion = "OPENING" /\ st.position >= Pct(100)

\* target_reached reporting every moving shutter that has a target.
target_reached_eager(st) ==
    st.target_position # None

\* The test of check_targets that a shutter st, interpolated, has reached
\* its target.
target_reached(st) ==
    /\ st.target_position # None
    /\ \/ st.motion = "OPENING" /\ st.position >= st.target_position[1]
       \/ st.motion = "CLOSING" /\ st.position <= st.target_position[1]

\* report_target clearing the target it reports.
report_target_clearing(R, T1, sid) ==
    [T |-> [T1 EXCEPT !.sh[sid].position = T1.sh[sid].target_position[1],
                      !.sh[sid].target_position = None],
     stop_ids |-> Append(R.stop_ids, sid)]

\* What check_targets does with a shutter that has reached its target: the
\* position snaps to the target and the key joins the returned list.
report_target(R, T1, sid) ==
    [T |-> [T1 EXCEPT !.sh[sid].position = T1.sh[sid].target_position[1]],
     stop_ids |-> Append(R.stop_ids, sid)]

\* One iteration of the loop of check_targets, for shutter sid.
\* R is [T, stop_ids]; the result is of the same shape.
check_one(R, sid, t) ==
    LET T0 == R.T
    IN  IF T0.sh[sid].motion = "STOPPED"
        THEN R
        ELSE LET T1 == _interpolate(T0, sid, t)
                 st == T1.sh[sid]
                 forced(limit) ==
                     _notify(save_positions(
                         [T1 EXCEPT !.sh[sid] =
                             [@ EXCEPT !.position = limit,
                                       !.motion = "STOPPED",
                                       !.target_position = None]]), sid)
             IN  IF limit_reached(st, "CLOSING")
                 THEN [R EXCEPT !.T = forced(Pct(0))]
                 ELSE IF limit_reached(st, "OPENING")
                 THEN [R EXCEPT !.T = forced(Pct(100))]
                 ELSE IF target_reached(st)
                 THEN report_target(R, T1, sid)
                 ELSE [R EXCEPT !.T = T1]

RECURSIVE check_from(_, _, _)
check_from(R, i, t) ==
    IF i > Len(ShutterOrder)
    THEN R
    ELSE check_from(check_one(R, ShutterOrder[i], t), i + 1, t)

\* PositionTracker.check_targets: the tracker afterwards and the returned list.
check_targets(T, t) == check_from([T |-> T, stop_ids |-> <<>>], 1, t)

\* PositionTracker.register_shutter on the dict sh of shutter states.
register_shutter(sh, shutter_id) ==
    IF shutter_id \in DOMAIN sh
    THEN sh
    ELSE [s \in DOMAIN sh \cup {shutter_id} |->
             IF s = shutter_id THEN ShutterState ELSE sh[s]]

\* register_shutter for ids[i], ids[i+1], ... in turn.
RECURSIVE register_from(_, _, _)
register_from(sh, ids, i) ==
    IF i > Len(ids)
    THEN sh
    ELSE register_from(register_shutter(sh, ids[i]), ids, i + 1)

\* PositionTracker.load_positions into the dict sh; file is the mapping read
\* from the persistence file (empty when it is missing).  Keys of the file
\* that are not registered are passed over.
load_positions(sh, file) ==
    [s \in DOMAIN sh |->
        IF s \in DOMAIN file
        THEN [sh[s] EXCEPT !.position = float(file[s])]
        ELSE sh[s]]

\* What the file system answers when load_positions goes for the persistence
\* path: the file is there and holds JSON ("ok"); no file is there
\* ("missing"); the status of the path cannot be taken, as when its
\* directory may not be searched ("stat_error"); the file is there and may
\* not be opened ("unreadable"); it is opened and does not hold JSON
\* ("garbled").
FileAccess == {"ok", "missing", "stat_error", "unreadable", "garbled"}

\* PositionTracker.load_positions as a call: the dict afterwards and the
\* exception that leaves the call.  Path.exists() answers False for a
\* missing file and raises any other OSError of stat(); it is called before
\* the try statement, which catches what open() and json.load() raise.
load_positions_at(sh, file, access) ==
    IF access = "missing"
    THEN [sh |-> sh, raised |-> "None"]
    ELSE IF access = "stat_error"
    THEN [sh |-> sh, raised |-> "PermissionError"]
    ELSE IF access \in {"unreadable", "garbled"}
    THEN [sh |-> sh, raised |-> "None"]
    ELSE [sh |-> load_positions(sh, file), raised |-> "None"]

\* The tracker as the variables hold it, with no callback made yet.
Tracker == [sh |-> shutters, file |-> positions_file, notes |-> <<>>]

\* ------------------------------------------------------------ the config
\* A device id is the text of the config file, a sequence of characters such
\* as "ab:01"; a safe id is a text as well.

UpperChars == <<"A", "B", "C", "D", "E", "F">>
LowerChars == <<"a", "b", "c", "d", "e", "f">>
HexChars == <<"0", "1", "2", "3", "4", "5", "6", "7", "8", "9",
              "a", "b", "c", "d", "e", "f">>

\* str.lower() and str.upper()
lower(str) ==
    [k \in 1..Len(str) |->
        IF \E n \in 1..Len(UpperChars) : UpperChars[n] = str[k]
        THEN LowerChars[CHOOSE n \in 1..Len(UpperChars) : UpperChars[n] = str[k]]
        ELSE str[k]]
upper(str) ==
    [k \in 1..Len(str) |->
        IF \E n \in 1..Len(LowerChars) : LowerChars[n] = str[k]
        THEN UpperChars[CHOOSE n \in 1..Len(LowerChars) : LowerChars[n] = str[k]]
        ELSE str[k]]

\* str.split(":"), from character k on, cur being the part read so far.
RECURSIVE split_from(_, _, _, _)
split_from(str, k, cur, parts) ==
    IF k > Len(str)
    THEN Append(parts, cur)
    ELSE IF str[k] = ":"
    THEN split_from(str, k + 1, <<>>, Append(parts, cur))
    ELSE split_from(str, k + 1, Append(cur, str[k]), parts)

\* int(x, 16) of the first n characters of x.
RECURSIVE int16(_, _)
int16(x, n) ==
    IF n = 0
    THEN 0
    ELSE 16 * int16(x, n - 1) +
         (CHOOSE v \in 0..15 : HexChars[v + 1] = lower(<<x[n]>>)[1])

\* ShutterConfig.device_id: the bytes of the address.
device_id(id) ==
    LET parts == split_from(id, 1, <<>>, <<>>)
    IN  [k \in 1..Len(parts) |-> int16(parts[k], Len(parts[k]))]

\* ShutterConfig.safe_id: the id without colons, in lower case.
safe_id_of(id) ==
    lower(SelectSeq(id, LAMBDA c : c # ":"))

\* d[k] = v on a dict d.
DictPut(d, k, v) ==
    [x \in DOMAIN d \cup {k} |-> IF x = k THEN v ELSE d[x]]

\* The offset test of _run finding no offset taken.
offset_taken_never(seen_offsets, offset) ==
    FALSE

\* offset in seen_offsets
offset_taken(seen_offsets, offset) ==
    offset \in DOMAIN seen_offsets

\* One iteration of the lookup loop of _run, for shutter = config[i]:
\* R is [tables, seen_offsets, raised].
lookup_one(R, shutter) ==
    LET sid == safe_id_of(shutter.id)
        tb1 == [R.tables EXCEPT
                  !._shutters_by_safe_id = DictPut(@, sid, shutter),
                  !._id_to_safe = DictPut(@, upper(shutter.id), sid)]
        dev == device_id(shutter.id)
        offset == IF shutter.sender_offset # None
                  THEN shutter.sender_offset[1]
                  ELSE dev[Len(dev)] % 128
    IN  IF offset_taken(R.seen_offsets, offset)
        THEN [R EXCEPT !.tables = tb1, !.raised = "ValueError"]
        ELSE [R EXCEPT
                !.tables = [tb1 EXCEPT !._sender_offsets = DictPut(@, sid, offset)],
                !.seen_offsets = DictPut(@, offset, shutter)]

\* The lookup tables before _run has filled them.
EmptyTables ==
    [_shutters_by_safe_id |-> <<>>, _id_to_safe |-> <<>>, _sender_offsets |-> <<>>]

\* The components _run constructs and starts.
Components == {"tracker", "mqtt", "gateway"}

\* The configuration of the running program: the two shutters, their device
\* ids written as the safe ids they map to, with sender offsets 1 and 2.
RunningConfig ==
    [i \in 1..Len(ShutterOrder) |-> [id |-> ShutterOrder[i], sender_offset |-> Some(i)]]
RunningTables ==
    [_shutters_by_safe_id |-> [s \in Shutters |->
         RunningConfig[CHOOSE i \in 1..Len(ShutterOrder) : ShutterOrder[i] = s]],
     _id_to_safe |-> [s \in Shutters |-> s],
     _sender_offsets |-> [s \in Shutters |->
         CHOOSE i \in 1..Len(ShutterOrder) : ShutterOrder[i] = s]]

\* The base id the dongle of the running program reports.
RunningBaseId == <<255, 155, 18, 128>>

\* The local variables of the threads when none is inside a handler.
IdleFrame ==
    [run |-> [config |-> RunningConfig, i |-> Len(RunningConfig) + 1,
              seen_offsets |-> [i \in 1..Len(RunningConfig) |-> RunningConfig[i]],
              raised |-> "None"],
     tick |-> [items |-> <<>>, i |-> 0, stop_ids |-> <<>>, j |-> 0],
     mqtt |-> [safe_id |-> "", command |-> ""],
     rx |-> [safe_id |-> "", packet |-> <<>>, events |-> <<>>, count |-> 0,
             popped |-> <<>>],
     gw |-> [direction |-> "STOP", time_sec |-> 0, sender_offset |-> 0],
     sm |-> [shutter_id |-> "", direction |-> "STOPPED", target_position |-> <<>>],
     sp |-> [s \in Shutters |-> <<>>]]

\* ------------------------------------------------------------------- Init
InitFiles ==
    {[s \in {} |-> 0]} \cup
    {[s \in Shutters |-> json_dump(f[s])] :
        f \in {g \in [Shutters -> InitPositions] :
                  <<g[ShutterOrder[1]], g[ShutterOrder[2]]>> \in InitPairs}}

Init ==
    /\ now = 0
    /\ positions_file \in InitFiles
    /\ shutters = load_positions(register_from(<<>>, ShutterOrder, 1),
                                 positions_file)
    /\ notified = <<>>
    /\ pending_commands = <<>>
    /\ sent = <<>>
    /\ stop_ids = <<>>
    /\ rx_alive = TRUE
    /\ ticked = FALSE
    /\ last_op = "start"
    /\ calls = 0
    /\ pc = [run |-> "wait", tick |-> "idle", mqtt |-> "idle", rx |-> "idle"]
    /\ frame = IdleFrame
    /\ tables = RunningTables
    /\ started = Components
    /\ file_access = "ok"
    /\ base_id = RunningBaseId

\* ------------------------------------------- the tracker driven on its own
TAdvance ==
    /\ now + Stride <= TrackerMaxTime
    /\ now' = now + Stride
    /\ UNCHANGED life
    /\ UNCHANGED <<shutters, positions_file, notified, pending_commands, sent,
                   stop_ids, rx_alive, ticked, last_op, calls>>

SetTracker(T) ==
    /\ calls < MaxCalls
    /\ calls' = calls + 1
    /\ shutters' = T.sh
    /\ positions_file' = T.file
    /\ notified' = T.notes

TStartMoving(sid, direction, target_position) ==
    /\ SetTracker(start_moving(Tracker, sid, direction, target_position, now))
    /\ last_op' = "start_moving"
    /\ stop_ids' = <<>>
    /\ UNCHANGED life
    /\ UNCHANGED <<now, pending_commands, sent, rx_alive, ticked>>

TStop(sid) ==
    /\ SetTracker(stop(Tracker, sid, now))
    /\ last_op' = "stop"
    /\ stop_ids' = <<>>
    /\ UNCHANGED life
    /\ UNCHANGED <<now, pending_commands, sent, rx_alive, ticked>>

TGetState(sid) ==
    /\ SetTracker(get_state(Tracker, sid, now))
    /\ last_op' = "get_state"
    /\ stop_ids' = <<>>
    /\ UNCHANGED life
    /\ UNCHANGED <<now, pending_commands, sent, rx_alive, ticked>>

TCheckTargets ==
    /\ LET R == check_targets(Tracker, now)
       IN  /\ SetTracker(R.T)
           /\ stop_ids' = R.stop_ids
    /\ last_op' = "check_targets"
    /\ UNCHANGED life
    /\ UNCHANGED <<now, pending_commands, sent, rx_alive, ticked>>

OptTargets == {None} \cup {Some(Pct(x)) : x \in Targets}

TrackerNext ==
    \/ TAdvance
    \/ \E sid \in Shutters, d \in {"OPENING", "CLOSING"}, tp \in OptTargets :
          TStartMoving(sid, d, tp)
    \/ \E sid \in Shutters : TStop(sid)
    \/ \E sid \in Shutters : TGetState(sid)
    \/ TCheckTargets

TrackerSpec == Init /\ [][TrackerNext]_vars

\* ------------------------------------- tracker methods on several threads
\* The tracker is called from the MQTT client's thread (_handle_set_position,
\* _on_mqtt_command), from the enocean-rx thread (_apply_status_to_shutter)
\* and from the asyncio loop (_position_check_loop), and takes no lock.  A
\* thread is switched at a call: start_moving is taken in two steps, up to
\* the call of time.monotonic() and from it on.

\* start_moving up to state.motion = direction.
start_moving_enter(T, sid, direction, t) ==
    IF sid \notin DOMAIN T.sh
    THEN T
    ELSE LET T1 == IF T.sh[sid].motion # "STOPPED" THEN _interpolate(T, sid, t) ELSE T
         IN  [T1 EXCEPT !.sh[sid].motion = direction]

\* start_moving from state._move_start_time = time.monotonic() on, on the
\* state as it is by then.
start_moving_finish(T, sid, direction, target_position, t) ==
    _notify([T EXCEPT !.sh[sid] =
                [@ EXCEPT !.move_start_time = t,
                          !.move_start_position = T.sh[sid].position,
                          !.target_position = target_position,
                          !.full_travel_time =
                              IF direction = "OPENING"
                              THEN full_open_time[sid]
                              ELSE full_close_time[sid]]], sid)

\* The MQTT thread enters start_moving.
SMEnter(sid, direction, target_position) ==
    /\ pc.mqtt = "idle"
    /\ SetTracker(start_moving_enter(Tracker, sid, direction, now))
    /\ pc' = [pc EXCEPT !.mqtt = "start_moving"]
    /\ frame' = [frame EXCEPT !.sm = [shutter_id |-> sid,
                                      direction |-> direction,
                                      target_position |-> target_position]]
    /\ last_op' = "start_moving_enter"
    /\ stop_ids' = <<>>
    /\ UNCHANGED <<now, pending_commands, sent, rx_alive, ticked, tables,
                   started, file_access, base_id>>

\* The MQTT thread runs start_moving to its end.
SMFinish ==
    /\ pc.mqtt = "start_moving"
    /\ LET T == start_moving_finish(Tracker, frame.sm.shutter_id,
                                    frame.sm.direction,
                                    frame.sm.target_position, now)
       IN  /\ shutters' = T.sh
           /\ positions_file' = T.file
           /\ notified' = T.notes
    /\ pc' = [pc EXCEPT !.mqtt = "idle"]
    /\ last_op' = "start_moving"
    /\ stop_ids' = <<>>
    /\ UNCHANGED <<now, pending_commands, sent, rx_alive, ticked, calls, frame,
                   tables, started, file_access, base_id>>

\* The MQTT thread in start_moving, without target (OPEN, CLOSE) or with a
\* set_position target, while the enocean-rx thread runs stop() and the
\* asyncio loop check_targets().
RaceNext ==
    \/ TAdvance
    \/ \E sid \in Shutters, d \in {"OPENING", "CLOSING"},
          tp \in {None, Some(Pct(50))} :
          SMEnter(sid, d, tp)
    \/ SMFinish
    \/ \E sid \in Shutters : TStop(sid)
    \/ TCheckTargets

\* The program started without persistence file: every shutter at 0.
FreshInit ==
    /\ Init
    /\ positions_file = [x \in {} |-> 0]

RaceSpec == FreshInit /\ [][RaceNext]_vars

\* --------------------------------------------- persistence across engines
\* An engine saves its positions and a fresh engine, with keys of its own
\* registered, loads the file.

KeyOrder == <<"s1", "s2", "s3">>
PersistKeys == {KeyOrder[i] : i \in 1..Len(KeyOrder)}
\* Positions an engine may hold: 0, the smallest fraction of the model,
\* 42.5 and 100.
PersistPositions == {Pct(0), 1, Pct(42) + HalfPct, Pct(100)}

PersistInit ==
    /\ now = 0
    /\ positions_file = [x \in {} |-> 0]
    /\ \E keys \in SUBSET PersistKeys :
       \E positions \in [keys -> PersistPositions] :
          shutters = [s \in keys |-> [ShutterState EXCEPT !.position = positions[s]]]
    /\ notified = <<>>
    /\ pending_commands = <<>>
    /\ sent = <<>>
    /\ stop_ids = <<>>
    /\ rx_alive = FALSE
    /\ ticked = FALSE
    /\ last_op = "start"
    /\ calls = 0
    /\ pc = [run |-> "wait", tick |-> "idle", mqtt |-> "idle", rx |-> "idle"]
    /\ frame = IdleFrame
    /\ tables = EmptyTables
    /\ started = {"tracker"}
    /\ file_access = "ok"
    /\ base_id = RunningBaseId

\* save_positions() of the engine.
PSave ==
    /\ positions_file' = save_positions(Tracker).file
    /\ last_op' = "save_positions"
    /\ UNCHANGED life
    /\ UNCHANGED <<now, shutters, notified, pending_commands, sent, stop_ids,
                   rx_alive, ticked, calls>>

\* A new PositionTracker on the same file: the keys are registered and
\* load_positions() is called.
PLoad(keys) ==
    /\ shutters' =
           load_positions(
               register_from(<<>>, SelectSeq(KeyOrder, LAMBDA k : k \in keys), 1),
               positions_file)
    /\ last_op' = "load_positions"
    /\ UNCHANGED life
    /\ UNCHANGED <<now, positions_file, notified, pending_commands, sent,
                   stop_ids, rx_alive, ticked, calls>>

PersistNext ==
    \/ PSave
    \/ \E keys \in SUBSET PersistKeys : PLoad(keys)

PersistSpec == PersistInit /\ [][PersistNext]_vars

\* ------------------------------------------------------ the published view
\* The update callback on a shutter in any state it may be in.

\* Positions in steps of an eighth of a point: the three points next to the
\* closed end and the point next to the open end.
ViewStep == PosUnit \div 8
ViewPositions ==
    {k * ViewStep : k \in 0..24} \cup {Pct(100) - k * ViewStep : k \in 0..8}

ViewInit ==
    /\ now = 0
    /\ positions_file = [x \in {} |-> 0]
    /\ \E position \in ViewPositions, motion \in MotionState :
          shutters = [s \in Shutters |->
                         IF s = ShutterOrder[1]
                         THEN [ShutterState EXCEPT !.position = position,
                                                   !.motion = motion]
                         ELSE ShutterState]
    /\ notified = <<>>
    /\ pending_commands = <<>>
    /\ sent = <<>>
    /\ stop_ids = <<>>
    /\ rx_alive = FALSE
    /\ ticked = FALSE
    /\ last_op = "start"
    /\ calls = 0
    /\ pc = [run |-> "wait", tick |-> "idle", mqtt |-> "idle", rx |-> "idle"]
    /\ frame = IdleFrame
    /\ tables = RunningTables
    /\ started = Components
    /\ file_access = "ok"
    /\ base_id = RunningBaseId

\* _notify(sid): _on_update is called and _handle_position_update publishes
\* the state and the position of the shutter.
ViewNotify(sid) ==
    /\ notified' = _notify(Tracker, sid).notes
    /\ last_op' = "_notify"
    /\ UNCHANGED life
    /\ UNCHANGED <<now, shutters, positions_file, pending_commands, sent,
                   stop_ids, rx_alive, ticked, calls>>

ViewNext == \E sid \in Shutters : ViewNotify(sid)

ViewSpec == ViewInit /\ [][ViewNext]_vars

\* ------------------------------------------------------------ the gateway
\* Direction (IntEnum) by name.
Direction == {"STOP", "UP", "DOWN"}

\* EnOceanGateway.send_command: the telegram handed to the communicator,
\* appended to those the handler has sent so far.  time_sec is in 1/TimeUnit s.
send_command(out, destination, direction, time_sec) ==
    Append(out, [destination |-> destination,
                 direction |-> direction,
                 time_sec |-> IF direction = "STOP" THEN 0 ELSE time_sec])

\* int(x) of the number num / den, den > 0: the fraction is dropped, towards
\* zero.
int(num, den) ==
    IF num >= 0 THEN num \div den ELSE 0 - ((0 - num) \div den)

\* (v >> shift) & 0xFF of an integer v of any sign.
ByteAt(v, shift) == (v \div (2 ^ shift)) % 256

\* _sender_with_offset adding the offset to the last byte alone.
_sender_with_offset_in_last_byte(base, offset) ==
    <<base[1], base[2], base[3], (base[4] + offset) % 256>>

\* EnOceanGateway._sender_with_offset: base_id + offset as four bytes.  The
\* sum is taken in two halves of 16 bits, the carry of the low half going
\* into the high one: the bytes are those of the sum taken in one piece.
_sender_with_offset(base, offset) ==
    LET low == base[3] * 256 + base[4] + offset
        high == base[1] * 256 + base[2] + (low \div 65536)
    IN  <<ByteAt(high, 8), ByteAt(high, 0), ByteAt(low, 8), ByteAt(low, 0)>>

\* RORG.BS4
RORG_BS4 == 165

\* time_val of send_command: min(int(time_sec * 10), 3000), time_sec being
\* 0 for STOP.
time_val(direction, time_sec) ==
    IF direction = "STOP" THEN 0
    ELSE Min(int(time_sec * 10, TimeUnit), 3000)

\* The radio packet send_command builds and hands to the communicator, or
\* nothing when the base id is not available.  time_sec is in 1/TimeUnit s.
send_command_packet(base, destination, direction, time_sec, sender_offset) ==
    IF base = None
    THEN <<>>
    ELSE LET tv == time_val(direction, time_sec)
             db1 == IF direction = "UP" THEN 1
                    ELSE IF direction = "DOWN" THEN 2
                    ELSE 0
             db0 == 8
             sender == _sender_with_offset(base, sender_offset)
         IN  <<[data |-> <<RORG_BS4, ByteAt(tv, 8), ByteAt(tv, 0), db1, db0,
                           sender[1], sender[2], sender[3], sender[4], 48>>,
                optional |-> <<3, destination[1], destination[2],
                               destination[3], destination[4], 255, 0>>]>>

\* The gateway on its own: commands of any direction, duration and sender
\* offset are sent through a dongle of any base id.
BaseIds ==
    {<<255, 155, 18, 128>>, <<255, 128, 0, 255>>, <<255, 128, 255, 255>>,
     <<255, 255, 255, 255>>}
\* Drive times in seconds: below 0, 0, less than a tenth, a tenth, a travel
\* time, 25.6 s (256 tenths), 300 s and more.
DriveTimes ==
    {0 - TimeUnit, 0, TimeUnit \div 20, TimeUnit \div 10, FullOpenTime * TimeUnit,
     (256 * TimeUnit) \div 10, 300 * TimeUnit, 300 * TimeUnit + TimeUnit \div 10,
     400 * TimeUnit}
\* Sender offsets: the derived ones (below 128) and configured ones beyond.
Offsets == {0, 1, 2, 127, 128, 255, 256, 65535, 65536}
\* The device id of an actuator.
Destination == <<5, 18, 52, 86>>

GatewayInit ==
    /\ now = 0
    /\ positions_file = [x \in {} |-> 0]
    /\ shutters = register_from(<<>>, ShutterOrder, 1)
    /\ notified = <<>>
    /\ pending_commands = <<>>
    /\ sent = <<>>
    /\ stop_ids = <<>>
    /\ rx_alive = TRUE
    /\ ticked = FALSE
    /\ last_op = "start"
    /\ calls = 0
    /\ pc = [run |-> "wait", tick |-> "idle", mqtt |-> "idle", rx |-> "idle"]
    /\ frame = IdleFrame
    /\ tables = RunningTables
    /\ started = Components
    /\ file_access = "ok"
    /\ base_id \in BaseIds

\* gateway.send_command(destination, direction, time_sec, sender_offset);
\* frame.gw keeps the arguments of the call.
SendCommand(direction, time_sec, sender_offset) ==
    /\ sent' = send_command_packet(base_id, Destination, direction, time_sec,
                                   sender_offset)
    /\ frame' = [frame EXCEPT !.gw = [direction |-> direction,
                                      time_sec |-> time_sec,
                                      sender_offset |-> sender_offset]]
    /\ last_op' = "send_command"
    /\ UNCHANGED <<now, shutters, positions_file, notified, pending_commands,
                   stop_ids, rx_alive, ticked, calls, pc, tables, started,
                   file_access, base_id>>

GatewayNext ==
    \E direction \in Direction, time_sec \in DriveTimes, sender_offset \in Offsets :
        SendCommand(direction, time_sec, sender_offset)

GatewaySpec == GatewayInit /\ [][GatewayNext]_vars

\* A received radio packet: rorg, sender, the bytes of packet.data after the
\* RORG byte (packet.data[i] is data[i] for i >= 1) and the status byte.
RockerValue(status_byte) == (status_byte \div 32) % 8
NuBit(raw_status) == (raw_status \div 16) % 2

\* StatusEvent(sender_id, direction, stopped): the attributes __init__ sets.
StatusEvent(sender_id, direction, stopped) ==
    [sender_id |-> sender_id, direction |-> direction, stopped |-> stopped]

\* EnOceanGateway._handle_rps_status: the events handed to the status callback.
_handle_rps_status(sender_id, packet) ==
    IF Len(packet.data) + 1 < 2
    THEN <<>>
    ELSE LET status_byte == packet.data[1]
             rocker_value == RockerValue(status_byte)
             direction ==
                 IF rocker_value \in {1, 3} THEN "DOWN"
                 ELSE IF rocker_value \in {0, 2}
                 THEN IF rocker_value = 0 /\ status_byte % 16 = 2
                      THEN "DOWN" ELSE "UP"
                 ELSE "None"
         IN  IF NuBit(packet.status) = 1
             THEN <<StatusEvent(sender_id, direction, FALSE)>>
             ELSE <<StatusEvent(sender_id, "None", TRUE)>>

\* _handle_4bs_status taking a teach-in telegram for a stop report.
_handle_4bs_status_of_any(sender_id, packet) ==
    IF Len(packet.data) + 1 < 5
    THEN <<>>
    ELSE <<StatusEvent(sender_id, "None", TRUE)>>

\* EnOceanGateway._handle_4bs_status
_handle_4bs_status(sender_id, packet) ==
    IF Len(packet.data) + 1 < 5
    THEN <<>>
    ELSE IF (packet.data[4] \div 8) % 2 = 0
    THEN <<>>
    ELSE <<StatusEvent(sender_id, "None", TRUE)>>

\* EnOceanGateway._handle_radio_packet
_handle_radio_packet(packet) ==
    IF packet.rorg = "RPS" THEN _handle_rps_status(packet.sender, packet)
    ELSE IF packet.rorg = "BS4" THEN _handle_4bs_status(packet.sender, packet)
    ELSE <<>>

\* ------------------------------------------------------- the orchestrator
\* The orchestrator's state threaded through its functions:
\*   T  the tracker, pending  _pending_commands, out  telegrams sent,
\*   raised  an exception left the function.

\* PendingPut adding the item without replacing the one under the key.
PendingPutAppend(pending, entry) ==
    Append(pending, entry)

\* _pending_commands[safe_id] = entry
PendingPut(pending, entry) ==
    IF \E i \in 1..Len(pending) : pending[i].safe_id = entry.safe_id
    THEN [i \in 1..Len(pending) |->
             IF pending[i].safe_id = entry.safe_id THEN entry ELSE pending[i]]
    ELSE Append(pending, entry)

\* PendingPop leaving the dict as it is.
PendingPopNothing(pending, safe_id) ==
    pending

\* _pending_commands.pop(safe_id, None)
PendingPop(pending, safe_id) ==
    SelectSeq(pending, LAMBDA e : e.safe_id # safe_id)

\* _PendingCommand(command, sent_at, retried) under its key.
_PendingCommand(safe_id, command, sent_at, retried) ==
    [safe_id |-> safe_id, command |-> command, sent_at |-> sent_at,
     retried |-> retried]

\* _invert
_invert(direction) ==
    IF direction = "UP" THEN "DOWN"
    ELSE IF direction = "DOWN" THEN "UP"
    ELSE direction

\* _handle_command
_handle_command(O, safe_id, command, t) ==
    IF safe_id \notin Shutters
    THEN O
    ELSE LET inv == invert_direction[safe_id]
         IN  IF command = "OPEN"
             THEN [O EXCEPT
                     !.out = send_command(@, safe_id,
                                 IF inv THEN _invert("UP") ELSE "UP",
                                 full_open_time[safe_id] * TimeUnit),
                     !.T = start_moving(@, safe_id, "OPENING", None, t)]
             ELSE IF command = "CLOSE"
             THEN [O EXCEPT
                     !.out = send_command(@, safe_id,
                                 IF inv THEN _invert("DOWN") ELSE "DOWN",
                                 full_close_time[safe_id] * TimeUnit),
                     !.T = start_moving(@, safe_id, "CLOSING", None, t)]
             ELSE IF command = "STOP"
             THEN [O EXCEPT
                     !.out = send_command(@, safe_id, "STOP", 0),
                     !.T = stop(@, safe_id, t)]
             ELSE O

\* _on_mqtt_command
_on_mqtt_command(O, safe_id, command, t) ==
    LET O1 == _handle_command(O, safe_id, command, t)
    IN  IF command \in {"OPEN", "CLOSE"}
        THEN [O1 EXCEPT !.pending =
                 PendingPut(@, _PendingCommand(safe_id, command, t, FALSE))]
        ELSE IF command = "STOP"
        THEN [O1 EXCEPT !.pending = PendingPop(@, safe_id)]
        ELSE O1

\* drive_time sending the full travel time whatever the distance.
drive_time_full(diff, full_travel_time) ==
    TimeUnit * full_travel_time

\* The drive time of _handle_set_position, (|diff| / 100) * full travel
\* time: diff is in position units and the result in time units.
drive_time(diff, full_travel_time) ==
    Abs(diff) * full_travel_time

\* _handle_set_position; target is a whole percentage.
_handle_set_position(O, safe_id, target, t) ==
    IF safe_id \notin Shutters
    THEN O
    ELSE LET T1 == get_state(O.T, safe_id, t)
             current_pos == T1.sh[safe_id].position
             diff == Pct(target) - current_pos
             inv == invert_direction[safe_id]
             O1 == [O EXCEPT !.T = T1]
         IN  IF Abs(diff) < Pct(2)
             THEN O1
             ELSE IF diff > 0
             THEN [O1 EXCEPT
                     !.out = send_command(@, safe_id,
                                 IF inv THEN _invert("UP") ELSE "UP",
                                 drive_time(diff, full_open_time[safe_id])),
                     !.T = start_moving(@, safe_id, "OPENING", Some(Pct(target)), t)]
             ELSE [O1 EXCEPT
                     !.out = send_command(@, safe_id,
                                 IF inv THEN _invert("DOWN") ELSE "DOWN",
                                 drive_time(diff, full_close_time[safe_id])),
                     !.T = start_moving(@, safe_id, "CLOSING", Some(Pct(target)), t)]

\* The methods class PositionTracker defines.
PositionTrackerMethods ==
    {"set_update_callback", "register_shutter", "load_positions",
     "save_positions", "get_state", "start_moving", "stop", "check_targets",
     "_interpolate", "_notify"}

\* _apply_status_to_shutter.  Reading an attribute the event does not carry,
\* or calling a method the tracker does not define, raises AttributeError:
\* the function is left at that point with what it has done so far.
_apply_status_to_shutter(O, safe_id, event, t) ==
    IF event.stopped
    THEN [O EXCEPT !.pending = PendingPop(@, safe_id),
                   !.T = stop(@, safe_id, t)]
    ELSE IF "is_standard_rocker" \notin DOMAIN event
    THEN [O EXCEPT !.raised = TRUE]
    ELSE IF event.is_standard_rocker
    THEN O
    ELSE LET O1 == [O EXCEPT !.pending = PendingPop(@, safe_id)]
             direction ==
                 IF invert_direction[safe_id] /\ event.direction # "None"
                 THEN _invert(event.direction)
                 ELSE event.direction
             active_target == O1.T.sh[safe_id].target_position
         IN  IF "get_target" \notin PositionTrackerMethods
             THEN [O1 EXCEPT !.raised = TRUE]
             ELSE IF direction = "UP"
             THEN [O1 EXCEPT !.T = start_moving(@, safe_id, "OPENING", active_target, t)]
             ELSE IF direction = "DOWN"
             THEN [O1 EXCEPT !.T = start_moving(@, safe_id, "CLOSING", active_target, t)]
             ELSE O1

\* _id_to_safe: the device id of each configured shutter to its safe id.
\* Device ids are written as the safe ids they map to.
_id_to_safe == [id \in Shutters |-> id]

\* _handle_enocean_status
_handle_enocean_status(O, event, t) ==
    IF event.sender_id \in DOMAIN _id_to_safe
    THEN _apply_status_to_shutter(O, _id_to_safe[event.sender_id], event, t)
    ELSE O

\* retry_one re-arming the record without marking it retried.
retry_one_unmarked(O, entry, t) ==
    IF t - entry.sent_at < COMMAND_ACK_TIMEOUT
    THEN O
    ELSE IF entry.retried
    THEN [O EXCEPT !.pending = PendingPop(@, entry.safe_id)]
    ELSE LET O1 == _handle_command(O, entry.safe_id, entry.command, t)
         IN  [O1 EXCEPT !.pending =
                 PendingPut(@, _PendingCommand(entry.safe_id, entry.command, t, FALSE))]

\* One iteration of the retry loop of _position_check_loop, for one item of
\* the snapshot list(_pending_commands.items()).
retry_one(O, entry, t) ==
    IF t - entry.sent_at < COMMAND_ACK_TIMEOUT
    THEN O
    ELSE IF entry.retried
    THEN [O EXCEPT !.pending = PendingPop(@, entry.safe_id)]
    ELSE LET O1 == _handle_command(O, entry.safe_id, entry.command, t)
         IN  [O1 EXCEPT !.pending =
                 PendingPut(@, _PendingCommand(entry.safe_id, entry.command, t, TRUE))]

RECURSIVE retry_from(_, _, _, _)
retry_from(O, items, i, t) ==
    IF i > Len(items)
    THEN O
    ELSE retry_from(retry_one(O, items[i], t), items, i + 1, t)

\* The loop over stop_ids of _position_check_loop: STOP telegram, then stop().
RECURSIVE stop_from(_, _, _, _)
stop_from(O, ids, i, t) ==
    IF i > Len(ids)
    THEN O
    ELSE stop_from([O EXCEPT !.out = send_command(@, ids[i], "STOP", 0),
                             !.T = stop(@, ids[i], t)],
                   ids, i + 1, t)

\* The publishing loop of _position_check_loop: get_state of every shutter.
RECURSIVE publish_from(_, _, _)
publish_from(T, i, t) ==
    IF i > Len(ShutterOrder)
    THEN T
    ELSE publish_from(get_state(T, ShutterOrder[i], t), i + 1, t)

\* One round of the loop of _position_check_loop, and what check_targets
\* returned in it.
_position_check_loop(O, t) ==
    LET O1 == retry_from(O, O.pending, 1, t)
        R == check_targets(O1.T, t)
        O2 == stop_from([O1 EXCEPT !.T = R.T], R.stop_ids, 1, t)
        O3 == [O2 EXCEPT !.T = publish_from(@, 1, t)]
    IN  [O |-> O3, stop_ids |-> R.stop_ids]

\* The orchestrator as the variables hold it, at the start of a handler.
Orchestrator ==
    [T |-> Tracker, pending |-> pending_commands, out |-> <<>>, raised |-> FALSE]

SetOrchestrator(O) ==
    /\ shutters' = O.T.sh
    /\ positions_file' = O.T.file
    /\ notified' = O.T.notes
    /\ pending_commands' = O.pending
    /\ sent' = O.out

\* ---------------------------------------------------------------- actions
\* Time passes.  The check loop sleeps 0.5 s between rounds, so it has run
\* at least once since the instant observed before.
Advance ==
    /\ now + Stride <= MaxTime
    /\ ticked
    /\ now' = now + Stride
    /\ ticked' = FALSE
    /\ UNCHANGED life
    /\ UNCHANGED <<shutters, positions_file, notified, pending_commands, sent,
                   stop_ids, rx_alive, last_op, calls>>

Commands == {"OPEN", "CLOSE", "STOP"}

\* The MQTT thread delivers OPEN/CLOSE/STOP for a configured shutter.
MqttCommand(safe_id, command) ==
    /\ calls < MaxEvents
    /\ calls' = calls + 1
    /\ SetOrchestrator(_on_mqtt_command(Orchestrator, safe_id, command, now))
    /\ last_op' = "mqtt_command"
    /\ stop_ids' = <<>>
    /\ UNCHANGED life
    /\ UNCHANGED <<now, rx_alive, ticked>>

\* The MQTT thread delivers set_position for a configured shutter.
MqttSetPosition(safe_id, target) ==
    /\ calls < MaxEvents
    /\ calls' = calls + 1
    /\ SetOrchestrator(_handle_set_position(Orchestrator, safe_id, target, now))
    /\ last_op' = "set_position"
    /\ stop_ids' = <<>>
    /\ UNCHANGED life
    /\ UNCHANGED <<now, rx_alive, ticked>>

\* Radio packets the receive loop may take from the communicator.
Senders == Shutters \cup {"b1"}
Packets ==
    [rorg : {"RPS"}, sender : Senders, status : {32, 48},
     data : {<<>>, <<1>>, <<2>>, <<48>>, <<80>>, <<144>>}]
    \cup
    [rorg : {"BS4"}, sender : Senders, status : {0},
     data : {<<0, 0>>, <<0, 40, 1, 8>>, <<255, 248, 13, 128>>}]
    \cup
    [rorg : {"VLD"}, sender : Senders, status : {0}, data : {<<0>>}]

\* One round of EnOceanGateway._receive_loop on a radio packet.  An exception
\* raised by the status callback leaves the loop: the thread ends.
Radio(packet) ==
    /\ rx_alive
    /\ calls < MaxEvents
    /\ calls' = calls + 1
    /\ LET events == _handle_radio_packet(packet)
           O == IF events = <<>>
                THEN Orchestrator
                ELSE _handle_enocean_status(Orchestrator, events[1], now)
       IN  /\ SetOrchestrator(O)
           /\ rx_alive' = ~O.raised
    /\ last_op' = "radio"
    /\ stop_ids' = <<>>
    /\ UNCHANGED life
    /\ UNCHANGED <<now, ticked>>

\* One round of _position_check_loop.
Tick ==
    /\ LET R == _position_check_loop(Orchestrator, now)
       IN  /\ SetOrchestrator(R.O)
           /\ stop_ids' = R.stop_ids
    /\ ticked' = TRUE
    /\ last_op' = "tick"
    /\ UNCHANGED life
    /\ UNCHANGED <<now, rx_alive, calls>>

Next ==
    \/ Advance
    \/ \E safe_id \in Shutters, command \in Commands : MqttCommand(safe_id, command)
    \/ \E safe_id \in Shutters, target \in Targets : MqttSetPosition(safe_id, target)
    \/ \E packet \in Packets : Radio(packet)
    \/ Tick

Spec == Init /\ [][Next]_vars

\* ------------------------------------------------------ telegrams received
\* The receive loop on telegrams of every kind, after the commands that set
\* shutters moving and arm pending commands.

\* ------------------------------------------- the check loop left to itself
\* Commands and telegrams arrive up to EventDeadline; from then on only the
\* check loop runs, every 0.5 s for ever (while True ... asyncio.sleep).
EventDeadline == Stride
\* Time enough after the last event for a resend (one timeout), a full
\* stroke after it, and the instants at which the loop is observed.
QuietMaxTime == EventDeadline + COMMAND_ACK_TIMEOUT + TrackerMaxTime + 2 * Stride

QuietAdvance ==
    /\ now + Stride <= QuietMaxTime
    /\ ticked
    /\ now' = now + Stride
    /\ ticked' = FALSE
    /\ UNCHANGED life
    /\ UNCHANGED <<shutters, positions_file, notified, pending_commands, sent,
                   stop_ids, rx_alive, last_op, calls>>

QuietEvent ==
    /\ now <= EventDeadline
    /\ \/ \E safe_id \in Shutters, command \in Commands :
              MqttCommand(safe_id, command)
       \/ \E safe_id \in Shutters, target \in Targets :
              MqttSetPosition(safe_id, target)
       \/ \E packet \in Packets : Radio(packet)

QuietNext ==
    \/ QuietAdvance
    \/ QuietEvent
    \/ Tick

\* The loop keeps running and time keeps passing.  The fairness of the loop
\* is that of the round that is due, ~ticked /\ Tick, which is enabled
\* exactly when ticked is false and makes it true.
QuietSpec ==
    /\ Init
    /\ [][QuietNext]_vars
    /\ []<>ticked
    /\ WF_vars(QuietAdvance)

\* ------------------------------------------------ set_position and ticks
\* The MQTT thread delivers set_position for a configured shutter; frame.sp
\* keeps the target of the last set_position handled for each shutter.
SPSet(safe_id, target) ==
    /\ calls < MaxEvents
    /\ calls' = calls + 1
    /\ SetOrchestrator(_handle_set_position(Orchestrator, safe_id, target, now))
    /\ frame' = [frame EXCEPT !.sp[safe_id] = <<target>>]
    /\ last_op' = "set_position"
    /\ stop_ids' = <<>>
    /\ UNCHANGED <<now, rx_alive, ticked, pc, tables, started, file_access,
                   base_id>>

\* set_position requests, and the check loop running as time passes.
SetPositionNext ==
    \/ Advance
    \/ \E safe_id \in Shutters, target \in Targets : SPSet(safe_id, target)
    \/ Tick

SetPositionSpec == FreshInit /\ [][SetPositionNext]_vars

\* Telegrams the communicator may hand over: RPS with no data byte or any
\* data byte, released (status 0x20) or pressed (0x30); 4BS too short, a
\* stop report, a teach-in (DB0 bit 3 clear); another RORG.
Telegrams ==
    [rorg : {"RPS"}, sender : Senders, status : {32, 48},
     data : {<<>>} \cup {<<b>> : b \in 0..255}]
    \cup
    [rorg : {"BS4"}, sender : Senders, status : {0},
     data : {<<0, 0>>, <<0, 40, 1, 8>>, <<255, 248, 13, 128>>, <<0, 0, 0, 0>>}]
    \cup
    [rorg : {"VLD"}, sender : Senders, status : {0}, data : {<<0>>}]

\* One round of EnOceanGateway._receive_loop on a telegram; frame.rx keeps
\* the packet and the events handed to the status callback.
Receive(packet) ==
    /\ rx_alive
    /\ frame.rx.count < MaxTelegrams
    /\ LET events == _handle_radio_packet(packet)
           O == IF events = <<>>
                THEN Orchestrator
                ELSE _handle_enocean_status(Orchestrator, events[1], now)
       IN  /\ SetOrchestrator(O)
           /\ rx_alive' = ~O.raised
           /\ frame' = [frame EXCEPT !.rx.packet = packet,
                                     !.rx.events = events,
                                     !.rx.count = @ + 1]
    /\ last_op' = "receive"
    /\ stop_ids' = <<>>
    /\ UNCHANGED <<now, ticked, calls, pc, tables, started, file_access, base_id>>

ReceiveNext ==
    \/ /\ frame.rx.count = 0
       /\ \E safe_id \in Shutters, command \in Commands :
              MqttCommand(safe_id, command)
    \/ \E packet \in Telegrams : Receive(packet)

\* The program started without persistence file: every shutter at 0.
ReceiveInit ==
    /\ Init
    /\ positions_file = [x \in {} |-> 0]

ReceiveSpec == ReceiveInit /\ [][ReceiveNext]_vars

\* ---------------------------------------------------------------- startup
\* _run from the loaded configuration to the running program.

\* Device ids of configurations: the same address in two letter cases, an
\* address whose last byte differs from it by 128, and another address.
DeviceIds ==
    {<<"a", "b", ":", "0", "1">>, <<"A", "B", ":", "0", "1">>,
     <<"a", "b", ":", "8", "1">>, <<"a", "b", ":", "0", "2">>}
SenderOffsets == {None, Some(1), Some(2)}
ShutterConfigs == [id : DeviceIds, sender_offset : SenderOffsets]
Configs == UNION {[1..n -> ShutterConfigs] : n \in 1..MaxShutters}

\* Persistence files a start may find: none or an empty one, and files an
\* earlier run saved under the safe id ab01 alone or with ab02.
StartupFiles ==
    {[x \in {} |-> 0],
     [x \in {<<"a", "b", "0", "1">>} |-> json_dump(Pct(50))],
     [x \in {<<"a", "b", "0", "1">>, <<"a", "b", "0", "2">>} |->
         json_dump(Pct(100) - HalfPct)]}

StartupInit ==
    /\ now = 0
    /\ file_access \in FileAccess
    /\ base_id = None
    /\ positions_file \in StartupFiles
    /\ file_access \in {"missing", "garbled"} =>
           positions_file = [x \in {} |-> 0]
    /\ shutters = <<>>
    /\ notified = <<>>
    /\ pending_commands = <<>>
    /\ sent = <<>>
    /\ stop_ids = <<>>
    /\ rx_alive = FALSE
    /\ ticked = FALSE
    /\ last_op = "start"
    /\ calls = 0
    /\ pc = [run |-> "lookup", tick |-> "idle", mqtt |-> "idle", rx |-> "idle"]
    /\ \E config \in Configs :
          frame = [IdleFrame EXCEPT !.run =
                      [config |-> config, i |-> 1, seen_offsets |-> <<>>,
                       raised |-> "None"]]
    /\ tables = EmptyTables
    /\ started = {}

\* One iteration of the loop that builds the lookup tables; a sender offset
\* collision raises ValueError out of _run.
LookupStep ==
    /\ pc.run = "lookup"
    /\ frame.run.i <= Len(frame.run.config)
    /\ LET R == lookup_one([tables |-> tables,
                            seen_offsets |-> frame.run.seen_offsets,
                            raised |-> "None"],
                           frame.run.config[frame.run.i])
       IN  /\ tables' = R.tables
           /\ frame' = [frame EXCEPT !.run.seen_offsets = R.seen_offsets,
                                     !.run.raised = R.raised,
                                     !.run.i = IF R.raised = "None" THEN @ + 1 ELSE @]
           /\ pc' = [pc EXCEPT !.run = IF R.raised = "None" THEN "lookup" ELSE "failed"]
    /\ UNCHANGED <<now, shutters, positions_file, notified, pending_commands,
                   sent, stop_ids, rx_alive, ticked, last_op, calls, started,
                   file_access, base_id>>

\* The tracker is constructed, every configured shutter registered and the
\* saved positions loaded; the MQTT handler and the gateway are constructed
\* and the callbacks wired.  An exception of load_positions leaves _run.
InitTracker ==
    /\ pc.run = "lookup"
    /\ frame.run.i > Len(frame.run.config)
    /\ LET R == load_positions_at(
                    register_from(<<>>, [i \in 1..Len(frame.run.config) |->
                                            safe_id_of(frame.run.config[i].id)], 1),
                    positions_file, file_access)
       IN  /\ shutters' = R.sh
           /\ frame' = [frame EXCEPT !.run.raised = R.raised]
           /\ IF R.raised = "None"
              THEN /\ started' = started \cup {"tracker"}
                   /\ pc' = [pc EXCEPT !.run = "start_gateway"]
              ELSE /\ started' = started
                   /\ pc' = [pc EXCEPT !.run = "failed"]
    /\ last_op' = "load_positions"
    /\ UNCHANGED <<now, positions_file, notified, pending_commands, sent,
                   stop_ids, rx_alive, ticked, calls, tables, file_access,
                   base_id>>

\* gateway.start(): the base id is read from the dongle and the receive
\* thread started, or RuntimeError is raised when the dongle does not answer.
StartGateway(ok) ==
    /\ pc.run = "start_gateway"
    /\ IF ok
       THEN /\ started' = started \cup {"gateway"}
            /\ rx_alive' = TRUE
            /\ pc' = [pc EXCEPT !.run = "start_mqtt"]
            /\ frame' = frame
            /\ base_id' = RunningBaseId
       ELSE /\ pc' = [pc EXCEPT !.run = "failed"]
            /\ frame' = [frame EXCEPT !.run.raised = "RuntimeError"]
            /\ UNCHANGED <<started, rx_alive, base_id>>
    /\ UNCHANGED <<now, shutters, positions_file, notified, pending_commands,
                   sent, stop_ids, ticked, last_op, calls, tables, file_access>>

\* mqtt_handler.start(): connected and its network thread started, or the
\* connection error raised.  _run then waits for the stop event.
StartMqtt(ok) ==
    /\ pc.run = "start_mqtt"
    /\ IF ok
       THEN /\ started' = started \cup {"mqtt"}
            /\ pc' = [pc EXCEPT !.run = "wait"]
            /\ frame' = frame
       ELSE /\ pc' = [pc EXCEPT !.run = "failed"]
            /\ frame' = [frame EXCEPT !.run.raised = "OSError"]
            /\ started' = started
    /\ UNCHANGED <<now, shutters, positions_file, notified, pending_commands,
                   sent, stop_ids, rx_alive, ticked, last_op, calls, tables,
                   file_access, base_id>>

StartupNext ==
    \/ LookupStep
    \/ InitTracker
    \/ \E ok \in BOOLEAN : StartGateway(ok)
    \/ \E ok \in BOOLEAN : StartMqtt(ok)

StartupSpec == StartupInit /\ [][StartupNext]_vars

\* --------------------------------------------------------------- shutdown
\* The running program up to and through a graceful shutdown.

\* SIGTERM or SIGINT: _shutdown sets the stop event and _run wakes up.
Signal ==
    /\ pc.run = "wait"
    /\ pc' = [pc EXCEPT !.run = "cancel"]
    /\ UNCHANGED <<now, shutters, positions_file, notified, pending_commands,
                   sent, stop_ids, rx_alive, ticked, last_op, calls, frame,
                   tables, started, file_access, base_id>>

\* check_task.cancel() and the wait for the task to end.
CancelCheckTask ==
    /\ pc.run = "cancel"
    /\ pc' = [pc EXCEPT !.run = "mqtt_stop", !.tick = "cancelled"]
    /\ UNCHANGED <<now, shutters, positions_file, notified, pending_commands,
                   sent, stop_ids, rx_alive, ticked, last_op, calls, frame,
                   tables, started, file_access, base_id>>

\* mqtt_handler.stop(): the network thread is stopped and the client
\* disconnected.
MqttStop ==
    /\ pc.run = "mqtt_stop"
    /\ pc' = [pc EXCEPT !.run = "gateway_stop"]
    /\ started' = started \ {"mqtt"}
    /\ UNCHANGED <<now, shutters, positions_file, notified, pending_commands,
                   sent, stop_ids, rx_alive, ticked, last_op, calls, frame,
                   tables, file_access, base_id>>

\* gateway.stop(): the receive loop is told to end and the communicator
\* stopped.
GatewayStop ==
    /\ pc.run = "gateway_stop"
    /\ pc' = [pc EXCEPT !.run = "save"]
    /\ started' = started \ {"gateway"}
    /\ rx_alive' = FALSE
    /\ UNCHANGED <<now, shutters, positions_file, notified, pending_commands,
                   sent, stop_ids, ticked, last_op, calls, frame, tables,
                   file_access, base_id>>

\* tracker.save_positions(), the last statement of _run.
SavePositions ==
    /\ pc.run = "save"
    /\ pc' = [pc EXCEPT !.run = "done"]
    /\ positions_file' = save_positions(Tracker).file
    /\ last_op' = "save_positions"
    /\ UNCHANGED <<now, shutters, notified, pending_commands, sent, stop_ids,
                   rx_alive, ticked, calls, frame, tables, started,
                   file_access, base_id>>

\* The handlers run as long as their source is there: the check task until
\* it is cancelled, the MQTT callbacks until the client is stopped, the
\* receive loop until the gateway is stopped.
ShutdownNext ==
    \/ pc.run = "wait" /\ Advance
    \/ pc.tick = "idle" /\ Tick
    \/ /\ "mqtt" \in started
       /\ \E safe_id \in Shutters, command \in Commands : MqttCommand(safe_id, command)
    \/ /\ "mqtt" \in started
       /\ \E safe_id \in Shutters, target \in Targets : MqttSetPosition(safe_id, target)
    \/ /\ "gateway" \in started
       /\ \E packet \in Packets : Radio(packet)
    \/ Signal
    \/ CancelCheckTask
    \/ MqttStop
    \/ GatewayStop
    \/ SavePositions

ShutdownSpec == Init /\ [][ShutdownNext]_vars

\* ---------------------------------------------------------------- threads
\* The handlers as their threads run them: the check loop on the asyncio
\* loop, the MQTT callbacks on the client's network thread (loop_start) and
\* the status callback on the enocean-rx thread.  No lock is taken anywhere,
\* so a thread may be switched between any two statements; a step below is
\* one call or one statement on _pending_commands or the tracker.

\* What the handlers share.
shared == <<shutters, positions_file, notified, pending_commands, sent>>

\* now = time.monotonic(); the snapshot list(_pending_commands.items()).
TickSnapshot ==
    /\ pc.tick = "idle"
    /\ pc' = [pc EXCEPT !.tick = "retry"]
    /\ frame' = [frame EXCEPT !.tick =
                    [items |-> pending_commands, i |-> 1, stop_ids |-> <<>>, j |-> 0]]
    /\ UNCHANGED shared
    /\ UNCHANGED <<now, stop_ids, rx_alive, ticked, last_op, calls, tables,
                   started, file_access, base_id>>

\* One item of the snapshot: passed over when young, deleted when retried
\* (KeyError ends the task when the key is gone), else the command is sent
\* again by _handle_command.
TickRetry ==
    /\ pc.tick = "retry"
    /\ frame.tick.i <= Len(frame.tick.items)
    /\ LET entry == frame.tick.items[frame.tick.i]
           next == [frame EXCEPT !.tick.i = @ + 1]
       IN  IF now - entry.sent_at < COMMAND_ACK_TIMEOUT
           THEN /\ frame' = next
                /\ UNCHANGED <<pc, shared>>
           ELSE IF entry.retried
           THEN IF \A k \in 1..Len(pending_commands) :
                      pending_commands[k].safe_id # entry.safe_id
                THEN /\ pc' = [pc EXCEPT !.tick = "dead"]
                     /\ UNCHANGED <<frame, shared>>
                ELSE /\ pending_commands' = PendingPop(pending_commands, entry.safe_id)
                     /\ frame' = next
                     /\ UNCHANGED <<pc, shutters, positions_file, notified, sent>>
           ELSE /\ SetOrchestrator(
                       _handle_command(Orchestrator, entry.safe_id, entry.command, now))
                /\ pc' = [pc EXCEPT !.tick = "rearm"]
                /\ frame' = frame
    /\ UNCHANGED <<now, stop_ids, rx_alive, ticked, last_op, calls, tables,
                   started, file_access, base_id>>

\* _pending_commands[safe_id] = _PendingCommand(..., retried=True)
TickRearm ==
    /\ pc.tick = "rearm"
    /\ LET entry == frame.tick.items[frame.tick.i]
       IN  pending_commands' =
               PendingPut(pending_commands,
                          _PendingCommand(entry.safe_id, entry.command, now, TRUE))
    /\ pc' = [pc EXCEPT !.tick = "retry"]
    /\ frame' = [frame EXCEPT !.tick.i = @ + 1]
    /\ UNCHANGED <<now, shutters, positions_file, notified, sent, stop_ids,
                   rx_alive, ticked, last_op, calls, tables, started,
                   file_access, base_id>>

\* stop_ids = tracker.check_targets()
TickCheck ==
    /\ pc.tick = "retry"
    /\ frame.tick.i > Len(frame.tick.items)
    /\ LET R == check_targets(Tracker, now)
       IN  /\ shutters' = R.T.sh
           /\ positions_file' = R.T.file
           /\ notified' = R.T.notes
           /\ stop_ids' = R.stop_ids
           /\ frame' = [frame EXCEPT !.tick.stop_ids = R.stop_ids, !.tick.j = 1]
    /\ pc' = [pc EXCEPT !.tick = "stop"]
    /\ UNCHANGED <<now, pending_commands, sent, rx_alive, ticked, last_op, calls,
                   tables, started, file_access, base_id>>

\* gateway.send_command(shutter.device_id, Direction.STOP, ...)
TickStopSend ==
    /\ pc.tick = "stop"
    /\ frame.tick.j <= Len(frame.tick.stop_ids)
    /\ sent' = send_command(<<>>, frame.tick.stop_ids[frame.tick.j], "STOP", 0)
    /\ pc' = [pc EXCEPT !.tick = "stop_call"]
    /\ UNCHANGED <<now, shutters, positions_file, notified, pending_commands,
                   stop_ids, rx_alive, ticked, last_op, calls, frame, tables,
                   started, file_access, base_id>>

\* tracker.stop(safe_id)
TickStopCall ==
    /\ pc.tick = "stop_call"
    /\ LET T == stop(Tracker, frame.tick.stop_ids[frame.tick.j], now)
       IN  /\ shutters' = T.sh
           /\ positions_file' = T.file
           /\ notified' = T.notes
    /\ pc' = [pc EXCEPT !.tick = "stop"]
    /\ frame' = [frame EXCEPT !.tick.j = @ + 1]
    /\ UNCHANGED <<now, pending_commands, sent, stop_ids, rx_alive, ticked,
                   last_op, calls, tables, started, file_access, base_id>>

\* The publishing loop, then the sleep.
TickPublish ==
    /\ pc.tick = "stop"
    /\ frame.tick.j > Len(frame.tick.stop_ids)
    /\ LET T == publish_from(Tracker, 1, now)
       IN  /\ shutters' = T.sh
           /\ positions_file' = T.file
           /\ notified' = T.notes
    /\ pc' = [pc EXCEPT !.tick = "idle"]
    /\ ticked' = TRUE
    /\ last_op' = "tick"
    /\ UNCHANGED <<now, pending_commands, sent, stop_ids, rx_alive, calls, frame,
                   tables, started, file_access, base_id>>

\* The MQTT thread calls _on_mqtt_command(safe_id, command).
MqttReceive(safe_id, command) ==
    /\ pc.mqtt = "idle"
    /\ calls < MaxEvents
    /\ calls' = calls + 1
    /\ pc' = [pc EXCEPT !.mqtt = "handle"]
    /\ frame' = [frame EXCEPT !.mqtt = [safe_id |-> safe_id, command |-> command]]
    /\ UNCHANGED shared
    /\ UNCHANGED <<now, stop_ids, rx_alive, ticked, last_op, tables, started,
                   file_access, base_id>>

\* _handle_command(safe_id, command, gateway, tracker)
MqttHandle ==
    /\ pc.mqtt = "handle"
    /\ SetOrchestrator(
           _handle_command(Orchestrator, frame.mqtt.safe_id, frame.mqtt.command, now))
    /\ pc' = [pc EXCEPT !.mqtt = "pending"]
    /\ UNCHANGED <<now, stop_ids, rx_alive, ticked, last_op, calls, frame, tables,
                   started, file_access, base_id>>

\* The pending command is armed (OPEN, CLOSE) or removed (STOP).
MqttPending ==
    /\ pc.mqtt = "pending"
    /\ pending_commands' =
           IF frame.mqtt.command \in {"OPEN", "CLOSE"}
           THEN PendingPut(pending_commands,
                    _PendingCommand(frame.mqtt.safe_id, frame.mqtt.command, now, FALSE))
           ELSE PendingPop(pending_commands, frame.mqtt.safe_id)
    /\ pc' = [pc EXCEPT !.mqtt = "idle"]
    /\ last_op' = "mqtt_command"
    /\ UNCHANGED <<now, shutters, positions_file, notified, sent, stop_ids,
                   rx_alive, ticked, calls, frame, tables, started,
                   file_access, base_id>>

\* The receive loop takes a packet and decodes it; a stop event of a
\* registered actuator enters _apply_status_to_shutter, an event that
\* reports motion raises there and ends the thread.
RxReceive(packet) ==
    /\ pc.rx = "idle"
    /\ rx_alive
    /\ calls < MaxEvents
    /\ calls' = calls + 1
    /\ LET events == _handle_radio_packet(packet)
       IN  IF events = <<>> \/ events[1].sender_id \notin DOMAIN _id_to_safe
           THEN UNCHANGED <<pc, frame, rx_alive>>
           ELSE IF events[1].stopped
           THEN /\ pc' = [pc EXCEPT !.rx = "pop"]
                /\ frame' = [frame EXCEPT !.rx.safe_id = _id_to_safe[events[1].sender_id]]
                /\ rx_alive' = rx_alive
           ELSE /\ rx_alive' = FALSE
                /\ UNCHANGED <<pc, frame>>
    /\ UNCHANGED shared
    /\ UNCHANGED <<now, stop_ids, ticked, last_op, tables, started,
                   file_access, base_id>>

\* _pending_commands.pop(safe_id, None); frame.rx.popped is what the pop
\* returns: the record it removed, if there was one.
RxPop ==
    /\ pc.rx = "pop"
    /\ pending_commands' = PendingPop(pending_commands, frame.rx.safe_id)
    /\ frame' = [frame EXCEPT !.rx.popped =
                    SelectSeq(pending_commands,
                              LAMBDA e : e.safe_id = frame.rx.safe_id)]
    /\ pc' = [pc EXCEPT !.rx = "stop"]
    /\ UNCHANGED <<now, shutters, positions_file, notified, sent, stop_ids,
                   rx_alive, ticked, last_op, calls, tables, started,
                   file_access, base_id>>

\* tracker.stop(safe_id)
RxStop ==
    /\ pc.rx = "stop"
    /\ LET T == stop(Tracker, frame.rx.safe_id, now)
       IN  /\ shutters' = T.sh
           /\ positions_file' = T.file
           /\ notified' = T.notes
    /\ pc' = [pc EXCEPT !.rx = "idle"]
    /\ last_op' = "radio"
    /\ UNCHANGED <<now, pending_commands, sent, stop_ids, rx_alive, ticked, calls,
                   frame, tables, started, file_access, base_id>>

ThreadNext ==
    \/ Advance
    \/ TickSnapshot
    \/ TickRetry
    \/ TickRearm
    \/ TickCheck
    \/ TickStopSend
    \/ TickStopCall
    \/ TickPublish
    \/ \E safe_id \in Shutters, command \in Commands : MqttReceive(safe_id, command)
    \/ MqttHandle
    \/ MqttPending
    \/ /\ pc.mqtt = "idle"
       /\ \E safe_id \in Shutters : MqttSetPosition(safe_id, 50)
    \/ \E packet \in Packets : RxReceive(packet)
    \/ RxPop
    \/ RxStop

\* The program started without persistence file: every shutter at 0.
ThreadInit ==
    /\ Init
    /\ positions_file = [x \in {} |-> 0]

ThreadSpec == ThreadInit /\ [][ThreadNext]_vars

\* ------------------------------------------------------------- properties
InSeq(x, seq) == \E i \in 1..Len(seq) : seq[i] = x

\* The calls of _on_update in notes: the key and the motion state passed.
Calls(notes) ==
    [i \in 1..Len(notes) |->
        [shutter_id |-> notes[i].shutter_id, motion |-> notes[i].motion]]

\* Where a shutter moving as st records would be at time t, were its travel
\* not clamped: the start position plus or minus the travel of the elapsed time.
Travelled(st, t) ==
    LET travel == ((t - st.move_start_time) * 100 * PosUnit) \div st.full_travel_time
    IN  IF st.motion = "OPENING" THEN st.move_start_position + travel
        ELSE IF st.motion = "CLOSING" THEN st.move_start_position - travel
        ELSE st.position

\* C1: the stored position of every registered shutter lies in [0,100] in
\* every state reached by start_moving, stop, get_state and check_targets
\* with any elapsed time between them.
C1_PositionInRange ==
    \A s \in Shutters :
        shutters[s].position >= Pct(0) /\ shutters[s].position <= Pct(100)

\* A moving shutter whose travel has overshot a limit and whose stored
\* position has been interpolated to that limit.
C1_Witness ==
    \E s \in Shutters :
        /\ shutters[s].motion # "STOPPED"
        /\ \/ Travelled(shutters[s], now) > Pct(100)
           \/ Travelled(shutters[s], now) < Pct(0)
        /\ shutters[s].position \in {Pct(0), Pct(100)}
        /\ last_op = "get_state"

\* C3: check_targets returns a key only of a shutter that was moving with a
\* target and whose interpolated position has reached the target in the
\* direction of travel.
C3_ReportedOnlyWhenReached ==
    [][\A i \in 1..Len(stop_ids') :
          LET st == shutters[stop_ids'[i]]
              pos == Max(Pct(0), Min(Pct(100), Travelled(st, now)))
          IN  /\ st.motion # "STOPPED"
              /\ st.target_position # None
              /\ st.motion = "OPENING" => pos >= st.target_position[1]
              /\ st.motion = "CLOSING" => pos <= st.target_position[1]]_vars

\* check_targets has just reported a shutter that travelled to its target.
C3_Witness ==
    \E s \in Shutters :
        /\ InSeq(s, stop_ids)
        /\ last_op = "check_targets"
        /\ shutters[s].move_start_time < now
        /\ shutters[s].move_start_position # shutters[s].position

\* The target of a moving shutter lay ahead of it, in the direction of
\* travel, when the move started.
TargetAhead(st) ==
    /\ st.target_position # None
    /\ \/ st.motion = "OPENING" /\ st.target_position[1] > st.move_start_position
       \/ st.motion = "CLOSING" /\ st.target_position[1] < st.move_start_position

\* C4 as claimed: of two successive check_targets calls, with nothing but
\* time passing between them, the second does not return a key the first
\* returned (for a target that lay ahead when the move started).
C4_ReportedOnce ==
    [][\A s \in Shutters :
          (/\ TCheckTargets
           /\ InSeq(s, stop_ids)
           /\ TargetAhead(shutters[s]))
          => ~InSeq(s, stop_ids')]_vars

\* C4 as amended: a reported shutter keeps moving towards its target, so the
\* next check_targets call reports it again unless it has reached its
\* physical limit and is stopped there; a stopped shutter is never reported,
\* so the reports end with the caller's stop().
C4_ReportedUntilStopped ==
    [][\A s \in Shutters :
          /\ (TCheckTargets /\ InSeq(s, stop_ids)) =>
                 (InSeq(s, stop_ids') \/ shutters'[s].motion = "STOPPED")
          /\ InSeq(s, stop_ids') =>
                 /\ shutters'[s].motion # "STOPPED"
                 /\ shutters'[s].target_position = shutters[s].target_position
                 /\ shutters'[s].position = shutters'[s].target_position[1]
          /\ shutters[s].motion = "STOPPED" => ~InSeq(s, stop_ids')]_vars

\* A shutter reported by two successive check_targets calls some time apart.
C4_Witness ==
    \E s \in Shutters :
        /\ InSeq(s, stop_ids)
        /\ calls = 3
        /\ TargetAhead(shutters[s])
        /\ Travelled(shutters[s], now) > shutters[s].position

\* The items of a pending dict under key s, and the move telegrams (UP or
\* DOWN) among the telegrams out that are addressed to shutter s.
EntriesFor(pending, s) == {i \in 1..Len(pending) : pending[i].safe_id = s}
MovesTo(out, s) ==
    {i \in 1..Len(out) : out[i].destination = s /\ out[i].direction # "STOP"}

\* The telegram that carries OPEN or CLOSE to shutter s: the direction on
\* the wire (swapped for an inverted shutter) and the full travel time.
CommandTelegram(s, command) ==
    [destination |-> s,
     direction |-> IF (command = "OPEN") = invert_direction[s] THEN "DOWN" ELSE "UP",
     time_sec |-> TimeUnit * (IF command = "OPEN" THEN FullOpenTime ELSE FullCloseTime)]
MotionOf(command) == IF command = "OPEN" THEN "OPENING" ELSE "CLOSING"

\* C2: a tick that finds a pending command at least 5 s old and not yet
\* retried resends the identical command once and re-arms the record as
\* retried; a tick that finds the retried record at least 5 s old drops it
\* and sends no move command; a tick that finds the record younger leaves it
\* and sends no move command.  So an unacknowledged command goes out twice.
C2_RetryOnceThenDrop ==
    [][Tick =>
          \A i \in 1..Len(pending_commands) :
              LET e == pending_commands[i]
                  s == e.safe_id
                  moves == MovesTo(sent', s)
              IN  IF now - e.sent_at < COMMAND_ACK_TIMEOUT
                  THEN /\ \E j \in EntriesFor(pending_commands', s) :
                              pending_commands'[j] = e
                       /\ moves = {}
                  ELSE IF ~e.retried
                  THEN /\ Cardinality(moves) = 1
                       /\ \A j \in moves : sent'[j] = CommandTelegram(s, e.command)
                       /\ \A j \in EntriesFor(pending_commands', s) :
                              pending_commands'[j] =
                                  _PendingCommand(s, e.command, now, TRUE)
                       /\ Cardinality(EntriesFor(pending_commands', s)) = 1
                  ELSE /\ EntriesFor(pending_commands', s) = {}
                       /\ moves = {}]_vars

\* A tick has just resent a command that went unacknowledged for 5 s.
C2_Witness ==
    \E i \in 1..Len(pending_commands) :
        /\ pending_commands[i].retried
        /\ pending_commands[i].sent_at = now
        /\ last_op = "tick"
        /\ InSeq(CommandTelegram(pending_commands[i].safe_id,
                                 pending_commands[i].command), sent)

\* A rocker-style telegram of a registered actuator that reports motion:
\* pressed, with a direction.
ReportsMotion(packet) ==
    /\ packet.rorg = "RPS"
    /\ packet.sender \in Shutters
    /\ Len(packet.data) >= 1
    /\ NuBit(packet.status) = 1
    /\ RockerValue(packet.data[1]) \in {0, 1, 2, 3}
ReportedDirection(packet) ==
    IF \/ RockerValue(packet.data[1]) \in {1, 3}
       \/ RockerValue(packet.data[1]) = 0 /\ packet.data[1] % 16 = 2
    THEN "DOWN" ELSE "UP"

\* C5: handling a motion report of a registered actuator removes the
\* shutter's pending command, sets the motion to the reported direction
\* (swapped for an inverted shutter) and keeps the target.
C5_AckClearsPendingKeepsTarget ==
    [][\A packet \in Packets :
          (last_op' = "radio" /\ ReportsMotion(packet) /\ Radio(packet)) =>
              LET s == packet.sender
                  d == IF invert_direction[s]
                       THEN _invert(ReportedDirection(packet))
                       ELSE ReportedDirection(packet)
              IN  /\ EntriesFor(pending_commands', s) = {}
                  /\ shutters'[s].motion = IF d = "UP" THEN "OPENING" ELSE "CLOSING"
                  /\ shutters'[s].target_position = shutters[s].target_position]_vars

\* The actuator's extended-status telegram: a 4BS data telegram (teach-in
\* bit set) of a registered actuator.
EndPositionNotice(packet) ==
    /\ packet.rorg = "BS4"
    /\ packet.sender \in Shutters
    /\ Len(packet.data) >= 4
    /\ (packet.data[4] \div 8) % 2 = 1

\* C6: handling a delayed end-position notice changes no shutter's motion,
\* position or target and no pending command.
C6_EndPositionNoticeIgnored ==
    [][\A packet \in Packets :
          (last_op' = "radio" /\ EndPositionNotice(packet) /\ Radio(packet)) =>
              /\ pending_commands' = pending_commands
              /\ \A s \in Shutters :
                    /\ shutters'[s].motion = shutters[s].motion
                    /\ shutters'[s].position = shutters[s].position
                    /\ shutters'[s].target_position = shutters[s].target_position]_vars

\* A rocker-style telegram of a registered actuator that reports a stop.
GenuineStop(packet) ==
    /\ packet.rorg = "RPS"
    /\ packet.sender \in Shutters
    /\ Len(packet.data) >= 1
    /\ NuBit(packet.status) = 0

\* C7: handling a genuine stop telegram of a registered actuator leaves the
\* shutter without pending command, STOPPED and without target.
C7_StopTelegramStops ==
    [][\A packet \in Packets :
          (last_op' = "radio" /\ GenuineStop(packet) /\ Radio(packet)) =>
              /\ EntriesFor(pending_commands', packet.sender) = {}
              /\ shutters'[packet.sender].motion = "STOPPED"
              /\ shutters'[packet.sender].target_position = None]_vars

\* A stop telegram has just stopped a moving shutter that had a pending
\* command: nothing was sent, the tracker notified the stop.
C7_Witness ==
    \E s \in Shutters :
        /\ last_op = "radio"
        /\ Calls(notified) = <<[shutter_id |-> s, motion |-> "STOPPED"]>>
        /\ shutters[s].full_travel_time # DefaultTravelTime
        /\ shutters[s].move_start_time < now
        /\ EntriesFor(pending_commands, s) = {}
        /\ calls = 2

\* (|delta|/100) of the full travel time of the command's direction, for a
\* delta in position units: TimeUnit is 100 * PosUnit, so that many seconds
\* are |delta| times the travel time in time units.
PartOfTravelTime(delta, command) ==
    Abs(delta) * (IF command = "OPEN" THEN FullOpenTime ELSE FullCloseTime)

\* C8: SET_POSITION(target) within 2 points of the estimated position sends
\* nothing and leaves motion, target and pending commands alone; otherwise
\* it sends exactly one move command, opening when the target is above the
\* position and closing when below, for (|delta|/100) of the full travel
\* time of that direction, and the shutter moves that way with that target.
C8_SetPosition ==
    [][\A s \in Shutters, target \in Targets :
          (last_op' = "set_position" /\ MqttSetPosition(s, target)) =>
              LET pos == Max(Pct(0), Min(Pct(100), Travelled(shutters[s], now)))
                  delta == Pct(target) - pos
                  command == IF delta > 0 THEN "OPEN" ELSE "CLOSE"
              IN  /\ pending_commands' = pending_commands
                  /\ IF Abs(delta) < Pct(2)
                     THEN /\ sent' = <<>>
                          /\ shutters'[s].motion = shutters[s].motion
                          /\ shutters'[s].target_position = shutters[s].target_position
                     ELSE /\ sent' =
                               <<[CommandTelegram(s, command) EXCEPT
                                    !.time_sec = PartOfTravelTime(delta, command)]>>
                          /\ shutters'[s].motion = MotionOf(command)
                          /\ shutters'[s].target_position = Some(Pct(target))]_vars

\* SET_POSITION has just started a partial move of a shutter that was
\* already moving the other way.
C8_Witness ==
    \E s \in Shutters :
        /\ last_op = "set_position"
        /\ Len(sent) = 1
        /\ sent[1].time_sec < TimeUnit * FullOpenTime
        /\ shutters[s].target_position # None
        /\ shutters[s].motion = "CLOSING"
        /\ shutters[s].move_start_time = now
        /\ calls = 2

\* C9: an external OPEN (CLOSE) sends one move command with the full open
\* (close) duration, leaves the shutter OPENING (CLOSING) without target and
\* leaves exactly one pending command for it: that command, not retried.
C9_OpenCloseArmsPending ==
    [][\A s \in Shutters, command \in {"OPEN", "CLOSE"} :
          (last_op' = "mqtt_command" /\ MqttCommand(s, command)) =>
              /\ sent' = <<CommandTelegram(s, command)>>
              /\ shutters'[s].motion = MotionOf(command)
              /\ shutters'[s].target_position = None
              /\ Cardinality(EntriesFor(pending_commands', s)) = 1
              /\ \A i \in EntriesFor(pending_commands', s) :
                    pending_commands'[i] = _PendingCommand(s, command, now, FALSE)]_vars

\* A CLOSE has just replaced the pending record of an earlier command for
\* the same shutter.
C9_Witness ==
    \E s \in Shutters :
        /\ last_op = "mqtt_command"
        /\ calls = 2
        /\ Len(pending_commands) = 1
        /\ pending_commands[1] = _PendingCommand(s, "CLOSE", now, FALSE)
        /\ shutters[s].motion = "CLOSING"
        /\ shutters[s].move_start_position > Pct(0)
        /\ positions_file = [x \in {} |-> 0]

\* C10: a pending command is created when OPEN or CLOSE is sent; it is
\* removed when the actuator confirms motion, when an explicit STOP is
\* issued, and when the retried record times out again; and there is at
\* most one pending command per shutter.
C10_PendingLifecycle ==
    [][\A s \in Shutters :
          LET has == EntriesFor(pending_commands', s) # {}
              created ==
                  \E command \in {"OPEN", "CLOSE"} :
                      last_op' = "mqtt_command" /\ MqttCommand(s, command)
              confirmed ==
                  \E packet \in Packets :
                      /\ last_op' = "radio"
                      /\ packet.sender = s
                      /\ ReportsMotion(packet)
                      /\ Radio(packet)
              stopped == last_op' = "mqtt_command" /\ MqttCommand(s, "STOP")
              gave_up ==
                  /\ last_op' = "tick"
                  /\ Tick
                  /\ \E i \in EntriesFor(pending_commands, s) :
                        /\ pending_commands[i].retried
                        /\ now - pending_commands[i].sent_at >= COMMAND_ACK_TIMEOUT
          IN  /\ created => has
              /\ (confirmed \/ stopped \/ gave_up) => ~has
              /\ Cardinality(EntriesFor(pending_commands', s)) <= 1]_vars

\* The estimated position of a shutter recorded as st at time t: where its
\* travel has taken it, kept within [0,100].
Estimated(st, t) == Max(Pct(0), Min(Pct(100), Travelled(st, t)))

\* A position snapped to the limit it lies less than one point from.
Snapped(p) ==
    IF p < Pct(1) THEN Pct(0) ELSE IF p > Pct(99) THEN Pct(100) ELSE p

\* C16: stop() leaves the shutter STOPPED without target, at 0 when its
\* estimated position was less than one point from 0, at 100 when less than
\* one point from 100 and at the estimated position otherwise, and the
\* persistence file holds that position for it.
C16_StopSnapsAndPersists ==
    [][\A sid \in Shutters :
          (last_op' = "stop" /\ TStop(sid)) =>
              LET p == Snapped(Estimated(shutters[sid], now))
              IN  /\ shutters'[sid].motion = "STOPPED"
                  /\ shutters'[sid].target_position = None
                  /\ shutters'[sid].position = p
                  /\ sid \in DOMAIN positions_file'
                  /\ float(positions_file'[sid]) = p]_vars

\* stop() has just stopped a shutter that was closing from a position
\* strictly between 99 and 100, and recorded it at 100.
C16_Witness ==
    \E s \in Shutters :
        /\ last_op = "stop"
        /\ Calls(notified) = <<[shutter_id |-> s, motion |-> "STOPPED"]>>
        /\ shutters[s].motion = "STOPPED"
        /\ shutters[s].full_travel_time = FullCloseTime
        /\ shutters[s].move_start_position > Pct(99)
        /\ shutters[s].move_start_position < Pct(100)
        /\ shutters[s].move_start_time = now
        /\ shutters[s].position = Pct(100)
        /\ float(positions_file[s]) = Pct(100)

\* The position of shutter sid after start_moving(direction, target)
\* immediately followed by stop(), both at the present instant.
AfterStartStop(sid, direction, target_position) ==
    stop(start_moving(Tracker, sid, direction, target_position, now),
         sid, now).sh[sid].position

\* C17 as claimed: in every state, start_moving immediately followed by
\* stop leaves the shutter at the position it was estimated at before.
C17_StartStopKeepsPosition ==
    \A sid \in Shutters, d \in {"OPENING", "CLOSING"} :
        AfterStartStop(sid, d, None) = Estimated(shutters[sid], now)

\* C17 as amended: start_moving immediately followed by stop leaves the
\* shutter at its estimated position snapped to the limit it is less than
\* one point from: unchanged at 0, at 100 and from 1 to 99, but 0 from a
\* position strictly between 0 and 1 and 100 from one strictly between 99
\* and 100.
C17_StartStopSnapsPosition ==
    \A sid \in Shutters, d \in {"OPENING", "CLOSING"} :
        LET before == Estimated(shutters[sid], now)
            after == AfterStartStop(sid, d, Some(Pct(50)))
        IN  /\ after = Snapped(before)
            /\ after = AfterStartStop(sid, d, None)
            /\ (before \in {Pct(0), Pct(100)} \/ (before >= Pct(1) /\ before <= Pct(99)))
                   => after = before

\* A shutter in mid-travel was started anew and stopped at the same instant:
\* it stands where it was.
C17_Witness ==
    \E s \in Shutters :
        /\ last_op = "stop"
        /\ Calls(notified) = <<[shutter_id |-> s, motion |-> "STOPPED"]>>
        /\ now > 0
        /\ shutters[s].move_start_time = now
        /\ shutters[s].motion = "STOPPED"
        /\ shutters[s].position = shutters[s].move_start_position
        /\ shutters[s].position > Pct(1)
        /\ shutters[s].position < Pct(99)
        /\ calls = 3

\* A pending command of shutter s that the tick at time t resends.
RetryDue(pending, s, t) ==
    \E i \in EntriesFor(pending, s) :
        /\ ~pending[i].retried
        /\ t - pending[i].sent_at >= COMMAND_ACK_TIMEOUT

\* The STOP telegrams among the telegrams out addressed to shutter s.
StopsTo(out, s) ==
    {i \in 1..Len(out) : out[i].destination = s /\ out[i].direction = "STOP"}

\* C18: a tick that finds a moving shutter whose travel has reached the
\* limit of its direction (0 while CLOSING, 100 while OPENING), and resends
\* no command for it, leaves it STOPPED at exactly that limit without
\* target and with that position in the persistence file; check_targets
\* does not return its key and no STOP telegram is sent for it, whether or
\* not it had a numeric target.
C18_LimitStopsLocally ==
    [][\A s \in Shutters :
          LET st == shutters[s]
              limit == IF st.motion = "CLOSING" THEN Pct(0) ELSE Pct(100)
          IN  (/\ last_op' = "tick"
               /\ Tick
               /\ st.motion # "STOPPED"
               /\ Estimated(st, now) = limit
               /\ ~RetryDue(pending_commands, s, now)) =>
                  /\ shutters'[s].motion = "STOPPED"
                  /\ shutters'[s].position = limit
                  /\ shutters'[s].target_position = None
                  /\ s \in DOMAIN positions_file'
                  /\ float(positions_file'[s]) = limit
                  /\ ~InSeq(s, stop_ids')
                  /\ StopsTo(sent', s) = {}]_vars

\* A tick has just stopped, at 100, a shutter that SET_POSITION 100 had set
\* moving from 50: no key returned, nothing sent.
C18_Witness ==
    \E s \in Shutters :
        /\ last_op = "tick"
        /\ Calls(notified) = <<[shutter_id |-> s, motion |-> "STOPPED"]>>
        /\ sent = <<>>
        /\ stop_ids = <<>>
        /\ shutters[s].motion = "STOPPED"
        /\ shutters[s].position = Pct(100)
        /\ shutters[s].move_start_position = Pct(50)
        /\ shutters[s].full_travel_time = FullOpenTime
        /\ now - shutters[s].move_start_time < COMMAND_ACK_TIMEOUT
        /\ EntriesFor(pending_commands, s) = {}
        /\ float(positions_file[s]) = Pct(100)

\* C19: a tick in which check_targets reports a shutter leaves that shutter
\* STOPPED at the target it had, a STOP telegram sent for it.
C19_StoppedAtTarget ==
    [][\A s \in Shutters :
          (last_op' = "tick" /\ Tick /\ InSeq(s, stop_ids')) =>
              /\ StopsTo(sent', s) # {}
              /\ shutters'[s].motion = "STOPPED"
              /\ shutters'[s].position = shutters[s].target_position[1]]_vars

\* The sender offset a configured shutter resolves to: the configured
\* override, else the last byte of its address modulo 128.
ResolvedOffset(shutter) ==
    IF shutter.sender_offset # None
    THEN shutter.sender_offset[1]
    ELSE device_id(shutter.id)[Len(device_id(shutter.id))] % 128
OffsetsDistinct(config) ==
    \A i, j \in 1..Len(config) :
        i # j => ResolvedOffset(config[i]) # ResolvedOffset(config[j])

\* C14: startup gets past the lookup tables only when the sender offsets of
\* the configured shutters are pairwise distinct; when two collide, _run
\* ends with ValueError and neither tracker nor gateway nor MQTT handler has
\* been started.
C14_StartupNeedsDistinctOffsets ==
    LET config == frame.run.config
        past_lookup == pc.run # "lookup" \/ frame.run.i > Len(config)
    IN  /\ (past_lookup /\ frame.run.raised # "ValueError") => OffsetsDistinct(config)
        /\ started # {} => OffsetsDistinct(config)
        /\ (past_lookup /\ ~OffsetsDistinct(config)) =>
               /\ pc.run = "failed"
               /\ frame.run.raised = "ValueError"
               /\ started = {}
               /\ shutters = <<>>

\* Startup has failed on two shutters with different addresses whose last
\* bytes are equal modulo 128.
C14_Witness ==
    /\ pc.run = "failed"
    /\ frame.run.raised = "ValueError"
    /\ started = {}
    /\ Len(frame.run.config) = 2
    /\ frame.run.config[1].sender_offset = None
    /\ frame.run.config[2].sender_offset = None
    /\ safe_id_of(frame.run.config[1].id) # safe_id_of(frame.run.config[2].id)

\* C15: the program runs only with a configuration whose shutters have
\* pairwise distinct safe keys, one table entry each.
C15_SafeKeysUnique ==
    LET config == frame.run.config
    IN  pc.run \notin {"lookup", "failed"} =>
            /\ \A i, j \in 1..Len(config) :
                   i # j => safe_id_of(config[i].id) # safe_id_of(config[j].id)
            /\ Cardinality(DOMAIN tables._shutters_by_safe_id) = Len(config)

\* C12: in a graceful shutdown the check task is cancelled before the final
\* positions are persisted, and the MQTT and radio connections are released
\* only after they are persisted.
C12_ShutdownOrder ==
    /\ pc.run = "done" => pc.tick = "cancelled"
    /\ started # Components => pc.run = "done"

\* C13: after a graceful shutdown the persistence file holds, for every
\* registered shutter, its estimated position at that time, moving or not.
C13_ShutdownPersistsEstimate ==
    pc.run = "done" =>
        \A s \in Shutters :
            /\ s \in DOMAIN positions_file
            /\ float(positions_file[s]) = Estimated(shutters[s], now)

\* C20: load_positions into a fresh engine, right after save_positions of
\* an engine, gives every registered key that the saving engine held
\* exactly the saved position, leaves a registered key the file does not
\* hold at 0, and takes in no key that is not registered.
C20_SaveLoadRoundTrip ==
    [][\A keys \in SUBSET PersistKeys :
          (last_op = "save_positions" /\ last_op' = "load_positions" /\ PLoad(keys)) =>
              /\ DOMAIN shutters' = keys
              /\ \A s \in keys :
                    shutters'[s].position =
                        IF s \in DOMAIN shutters THEN shutters[s].position ELSE Pct(0)]_vars

\* A fresh engine has just loaded 42.5 and the smallest fraction from a
\* file that also holds a key it has not registered.
C20_Witness ==
    /\ last_op = "load_positions"
    /\ \E s, u, v \in PersistKeys :
          /\ s \in DOMAIN shutters
          /\ shutters[s].position = Pct(42) + HalfPct
          /\ positions_file[s] = [whole |-> 42, frac |-> JsonScale \div 2]
          /\ u \in DOMAIN shutters
          /\ shutters[u].position = 1
          /\ v \in DOMAIN positions_file
          /\ v \notin DOMAIN shutters

\* The threads that stand inside a handler.
InHandler == {th \in {"tick", "mqtt", "rx"} : pc[th] \notin {"idle", "dead", "cancelled"}}

\* C11: the handlers of the three event sources are serialized: while one
\* source's handler is between two of its steps, no other source's handler
\* is running.
C11_HandlersSerialized ==
    Cardinality(InHandler) <= 1

\* C21: load_positions at startup lets no error out when the persistence
\* file is missing or cannot be read or parsed, and every registered shutter
\* is at position 0 after it.
C21_LoadNeverFails ==
    (last_op = "load_positions" /\ file_access # "ok") =>
        /\ frame.run.raised = "None"
        /\ pc.run # "failed"
        /\ \A s \in DOMAIN shutters : shutters[s].position = Pct(0)

\* C22: the view published of a shutter is a function of its state: "opening"
\* while OPENING, "closing" while CLOSING, otherwise "open" when the position
\* is above 0 and "closed" when it is 0; the published position is a whole
\* number of 0..100 and no whole number is nearer to the position.
C22_PublishedView ==
    \A i \in 1..Len(notified) :
        LET note == notified[i]
            st == shutters[note.shutter_id]
        IN  /\ st.motion = "OPENING" => note.ha_state = "opening"
            /\ st.motion = "CLOSING" => note.ha_state = "closing"
            /\ (st.motion = "STOPPED" /\ st.position > Pct(0)) => note.ha_state = "open"
            /\ (st.motion = "STOPPED" /\ st.position = Pct(0)) => note.ha_state = "closed"
            /\ note.ha_position \in 0..100
            /\ 2 * Abs(Pct(note.ha_position) - st.position) <= PosUnit

\* A stopped shutter half a point above the closed end is published as open
\* at position 0.
C22_Witness ==
    /\ Len(notified) = 1
    /\ shutters[notified[1].shutter_id].motion = "STOPPED"
    /\ shutters[notified[1].shutter_id].position = HalfPct
    /\ notified[1].ha_state = "open"
    /\ notified[1].ha_position = 0

\* C23: start_moving and stop on a registered shutter, called in any state
\* the tracker reaches, call the update callback exactly once, with the key
\* of the shutter and its motion state after the transition (the requested
\* direction, STOPPED), the state passed being the one after the transition.
C23_CallbackOncePerTransition ==
    \A sid \in Shutters :
        /\ \A direction \in {"OPENING", "CLOSING"} :
               LET T2 == start_moving(Tracker, sid, direction, None, now)
               IN  /\ Calls(T2.notes) = <<[shutter_id |-> sid, motion |-> direction]>>
                   /\ T2.sh[sid].motion = direction
                   /\ T2.notes[1].ha_state = ha_state(T2.sh[sid])
                   /\ T2.notes[1].ha_position = ha_position(T2.sh[sid])
        /\ LET T3 == stop(Tracker, sid, now)
           IN  /\ Calls(T3.notes) = <<[shutter_id |-> sid, motion |-> "STOPPED"]>>
               /\ T3.sh[sid].motion = "STOPPED"
               /\ T3.notes[1].ha_state = ha_state(T3.sh[sid])
               /\ T3.notes[1].ha_position = ha_position(T3.sh[sid])

\* A shutter that was opening has been told to close: one call, CLOSING.
C23_Witness ==
    /\ last_op = "start_moving"
    /\ now > 0
    /\ \E sid \in Shutters :
          /\ Calls(notified) = <<[shutter_id |-> sid, motion |-> "CLOSING"]>>
          /\ shutters[sid].motion = "CLOSING"
          /\ shutters[sid].move_start_time = now
          /\ shutters[sid].move_start_position > Pct(50)
          /\ shutters[sid].move_start_position < Pct(100)

\* Where a shutter that has moved as st records for the time elapsed since
\* its move started stands at time t by the travel times of its
\* configuration.
ByTravelTime(sid, st, t) ==
    LET elapsed == t - st.move_start_time
    IN  IF st.motion = "OPENING"
        THEN Min(Pct(100), st.move_start_position +
                              (elapsed * Pct(100)) \div full_open_time[sid])
        ELSE Max(Pct(0), st.move_start_position -
                            (elapsed * Pct(100)) \div full_close_time[sid])

\* C24: get_state of a moving shutter, called in any state the tracker
\* reaches, stores and returns the start position of the move plus (OPENING)
\* or minus (CLOSING) 100 points per configured travel time elapsed, clamped
\* to [0,100]; after half the travel time that is 50 points.
C24_GetStateInterpolates ==
    \A sid \in Shutters :
        LET st == shutters[sid]
            T1 == get_state(Tracker, sid, now)
            elapsed == now - st.move_start_time
        IN  st.motion # "STOPPED" =>
                /\ T1.sh[sid].position = ByTravelTime(sid, st, now)
                /\ T1.sh[sid] = [st EXCEPT !.position = ByTravelTime(sid, st, now)]
                /\ (st.motion = "OPENING" /\ 2 * elapsed = full_open_time[sid]) =>
                       T1.sh[sid].position = Min(Pct(100), st.move_start_position + Pct(50))
                /\ (st.motion = "CLOSING" /\ 2 * elapsed = full_close_time[sid]) =>
                       T1.sh[sid].position = Max(Pct(0), st.move_start_position - Pct(50))

\* get_state has found a shutter half its opening time after it started to
\* open: the position stored is 50 points above where it started.
C24_Witness ==
    /\ last_op = "get_state"
    /\ \E sid \in Shutters :
          /\ shutters[sid].motion = "OPENING"
          /\ 2 * (now - shutters[sid].move_start_time) = full_open_time[sid]
          /\ shutters[sid].move_start_position < Pct(50)
          /\ shutters[sid].position = shutters[sid].move_start_position + Pct(50)

\* One leg of travel: where a shutter stands that left position p in the
\* given direction e seconds ago.
Leg(sid, p, direction, e) ==
    IF direction = "OPENING"
    THEN Min(Pct(100), p + (e * Pct(100)) \div full_open_time[sid])
    ELSE Max(Pct(0), p - (e * Pct(100)) \div full_close_time[sid])

\* C25: start_moving takes the position interpolated at the moment of the
\* call as the start of the new move, so from any state the tracker reaches,
\* a move in one direction, a change of direction Stride seconds later and a
\* reading another Stride seconds later give the position of the two legs
\* travelled one after the other, each clamped to [0,100].
C25_DirectionChangeKeepsTravel ==
    \A sid \in Shutters :
        LET st == shutters[sid]
            p0 == IF st.motion = "STOPPED" THEN st.position
                  ELSE ByTravelTime(sid, st, now)
        IN  \A d1, d2 \in {"OPENING", "CLOSING"} :
                LET T1 == start_moving(Tracker, sid, d1, None, now)
                    T2 == start_moving(T1, sid, d2, None, now + Stride)
                    T3 == get_state(T2, sid, now + 2 * Stride)
                    p1 == Leg(sid, p0, d1, Stride)
                IN  /\ T1.sh[sid].move_start_position = p0
                    /\ T1.sh[sid].move_start_time = now
                    /\ T2.sh[sid].move_start_position = p1
                    /\ T2.sh[sid].move_start_time = now + Stride
                    /\ T3.sh[sid].position = Leg(sid, p1, d2, Stride)

\* A shutter that was closing from the middle has been told to open: the new
\* move starts where the closing had brought it.
C25_Witness ==
    /\ last_op = "start_moving"
    /\ \E sid \in Shutters :
          /\ Calls(notified) = <<[shutter_id |-> sid, motion |-> "OPENING"]>>
          /\ shutters[sid].move_start_time = now
          /\ shutters[sid].move_start_position = Leg(sid, Pct(50), "CLOSING", now)
          /\ shutters[sid].move_start_position \in (Pct(0) + 1)..(Pct(50) - 1)

\* The payload of a command packet: DB3, DB2, DB1, DB0.
Payload(packet) == SubSeq(packet.data, 2, 5)

\* The drive time of time_sec (in 1/TimeUnit s) in tenths of a second,
\* the fraction dropped, held to [0, 3000].
Tenths(time_sec) ==
    IF time_sec <= 0 THEN 0
    ELSE IF time_sec >= 300 * TimeUnit THEN 3000
    ELSE (time_sec * 10) \div TimeUnit

\* C26: the payload of a command sent with any direction and drive time is
\* [durationHi, durationLo, directionCode, 0x08], the duration being the
\* drive time in tenths of a second held to [0, 3000], 0 for STOP, and the
\* code 1 for UP, 2 for DOWN, 0 for STOP.
C26_CommandPayload ==
    last_op = "send_command" =>
        LET direction == frame.gw.direction
            duration == IF direction = "STOP" THEN 0
                        ELSE Tenths(frame.gw.time_sec)
            code == CASE direction = "UP" -> 1
                      [] direction = "DOWN" -> 2
                      [] direction = "STOP" -> 0
        IN  /\ Len(sent) = 1
            /\ Payload(sent[1]) = <<duration \div 256, duration % 256, code, 8>>

\* The sender address of a command packet.
SenderOf(packet) == SubSeq(packet.data, 6, 9)

\* base + offset as unsigned numbers of 32 bits, added byte by byte from the
\* last one, each carry going into the byte before, the carry out of the
\* first byte dropped.
AddU32(base, offset) ==
    LET s4 == base[4] + (offset % 256)
        s3 == base[3] + ((offset \div 256) % 256) + (s4 \div 256)
        s2 == base[2] + ((offset \div 65536) % 256) + (s3 \div 256)
        s1 == base[1] + ((offset \div 16777216) % 256) + (s2 \div 256)
    IN  <<s1 % 256, s2 % 256, s3 % 256, s4 % 256>>

\* C27: the sender address of a command sent with a sender offset is the
\* base address plus the offset modulo 2^32, in four bytes, the first the
\* most significant; two different offsets give two different addresses.
C27_SenderAddress ==
    /\ last_op = "send_command" =>
           SenderOf(sent[1]) = AddU32(base_id, frame.gw.sender_offset)
    /\ \A o1, o2 \in Offsets :
           o1 # o2 => _sender_with_offset(base_id, o1) # _sender_with_offset(base_id, o2)

\* A command has been sent with offset 1 from a base address that ends in
\* FF FF: the carry has gone through two bytes.
C27_Witness ==
    /\ last_op = "send_command"
    /\ base_id = <<255, 128, 255, 255>>
    /\ frame.gw.sender_offset = 1
    /\ SenderOf(sent[1]) = <<255, 129, 0, 0>>

\* The sender of a telegram is one of the actuators, which report in the
\* proprietary encoding; any other sender is a rocker switch.
IsActuator(sender) == sender \in DOMAIN _id_to_safe

\* C28: a rocker-style (RPS) telegram with a data byte gives one status
\* event: released, stopped = true and no direction; pressed, stopped = false
\* and DOWN for rocker codes 1 and 3, UP for code 2, for code 0 UP unless the
\* sender is an actuator and the low nibble is 2, then DOWN; no direction for
\* the other codes.
C28_RockerDecoding ==
    LET packet == frame.rx.packet
    IN  (last_op = "receive" /\ packet.rorg = "RPS" /\ Len(packet.data) >= 1) =>
            LET byte == packet.data[1]
                code == byte \div 32
                pressed == (packet.status \div 16) % 2 = 1
                direction ==
                    IF code \in {1, 3} THEN "DOWN"
                    ELSE IF code = 2 THEN "UP"
                    ELSE IF code = 0
                    THEN IF IsActuator(packet.sender) /\ byte % 16 = 2
                         THEN "DOWN" ELSE "UP"
                    ELSE "None"
            IN  /\ Len(frame.rx.events) = 1
                /\ frame.rx.events[1].sender_id = packet.sender
                /\ ~pressed => /\ frame.rx.events[1].stopped
                               /\ frame.rx.events[1].direction = "None"
                /\ pressed => /\ ~frame.rx.events[1].stopped
                              /\ frame.rx.events[1].direction = direction

\* A telegram that is to be discarded: too short for its RORG, a 4BS
\* teach-in (DB0 bit 3 clear), or of a RORG that is neither RPS nor 4BS.
Discarded(packet) ==
    \/ packet.rorg = "RPS" /\ Len(packet.data) < 1
    \/ packet.rorg = "BS4" /\ Len(packet.data) < 4
    \/ packet.rorg = "BS4" /\ Len(packet.data) >= 4 /\ (packet.data[4] \div 8) % 2 = 0
    \/ packet.rorg \notin {"RPS", "BS4"}

\* C29: the receive loop, handed a telegram that is to be discarded, gives
\* the status callback no event, leaves every shutter, every pending command
\* and the persistence file as they are and goes on running.
C29_DiscardedTelegram ==
    [][(frame'.rx.count = frame.rx.count + 1 /\ Discarded(frame'.rx.packet)) =>
          /\ frame'.rx.events = <<>>
          /\ shutters' = shutters
          /\ pending_commands' = pending_commands
          /\ positions_file' = positions_file
          /\ notified' = <<>>
          /\ rx_alive']_vars

\* A teach-in telegram of an actuator has been received while its shutter
\* was opening with a pending command: both are as they were.
C29_Witness ==
    /\ last_op = "receive"
    /\ frame.rx.packet.rorg = "BS4"
    /\ Len(frame.rx.packet.data) = 4
    /\ frame.rx.packet.data[4] = 128
    /\ frame.rx.events = <<>>
    /\ rx_alive
    /\ LET s == frame.rx.packet.sender
       IN  /\ s \in Shutters
           /\ shutters[s].motion = "OPENING"
           /\ EntriesFor(pending_commands, s) # {}


\* The shutters a sender's telegrams act on: the only table from radio
\* addresses to shutters is _id_to_safe.
Controls(sender, safe_id) ==
    sender \in DOMAIN _id_to_safe /\ _id_to_safe[sender] = safe_id

\* The motion a pressed rocker asks for.
Pressed(direction) == IF direction = "UP" THEN "OPENING" ELSE "CLOSING"

\* C30: a rocker press for a STOPPED shutter starts it in the pressed
\* direction, a press of the same rocker while it moves in that direction
\* stops it, a press of the opposite rocker reverses it to the pressed
\* direction, and a release changes nothing.
C30_ButtonToggle ==
    [][(/\ frame'.rx.count = frame.rx.count + 1
        /\ frame'.rx.packet.rorg = "RPS"
        /\ Len(frame'.rx.events) = 1) =>
           LET event == frame'.rx.events[1]
           IN  \A s \in Shutters :
                   Controls(event.sender_id, s) =>
                       /\ event.stopped =>
                              shutters'[s].motion = shutters[s].motion
                       /\ (~event.stopped /\ event.direction # "None") =>
                              shutters'[s].motion =
                                  IF shutters[s].motion = Pressed(event.direction)
                                  THEN "STOPPED"
                                  ELSE Pressed(event.direction)]_vars

\* The direction a command for shutter s carries on the wire.
WireDirection(s, command) ==
    IF command = "STOP" THEN "STOP"
    ELSE IF (command = "OPEN") = invert_direction[s] THEN "DOWN" ELSE "UP"

\* The command half of C31: an OPEN, CLOSE or STOP for shutter s goes out as
\* one telegram with the wire direction (swapped for an inverted shutter,
\* STOP as it is) and the engine records OPENING for OPEN, CLOSING for CLOSE.
CommandInverted ==
    \A s \in Shutters, command \in Commands :
        (last_op' = "mqtt_command" /\ MqttCommand(s, command)) =>
            /\ Len(sent') = 1
            /\ sent'[1].direction = WireDirection(s, command)
            /\ command # "STOP" => shutters'[s].motion = MotionOf(command)

\* The status half of C31: a motion report of the actuator of shutter s that
\* carries the wire direction of the command pending for s is handled, and
\* the engine stays in the motion state that command established.
EchoMappedBack ==
    \A packet \in Packets :
        (last_op' = "radio" /\ ReportsMotion(packet) /\ Radio(packet)) =>
            LET s == packet.sender
            IN  \A i \in EntriesFor(pending_commands, s) :
                    LET command == pending_commands[i].command
                    IN  (/\ shutters[s].motion = MotionOf(command)
                         /\ ReportedDirection(packet) = WireDirection(s, command)) =>
                            /\ rx_alive'
                            /\ shutters'[s].motion = MotionOf(command)

\* C31: direction inversion is symmetric: for a shutter with invert_direction
\* OPEN goes out as DOWN and CLOSE as UP while the engine records OPENING and
\* CLOSING, STOP is never inverted, and a status telegram echoing the wire
\* direction of a command is mapped back, the engine staying in the motion
\* state the command established.
C31_InversionSymmetric ==
    [][CommandInverted /\ EchoMappedBack]_vars

\* C32: in every reachable state a shutter whose motion is STOPPED has no
\* target: a target exists only while the shutter is OPENING or CLOSING.
C32_StoppedHasNoTarget ==
    \A s \in DOMAIN shutters :
        shutters[s].motion = "STOPPED" => shutters[s].target_position = None

\* C33: whenever the tick resends a pending OPEN or CLOSE (the record is at
\* least 5 s old and not retried), nothing has superseded the command: the
\* engine is still moving in the command's direction with no numeric target.
C33_RetryNotSuperseded ==
    [][Tick =>
          \A i \in 1..Len(pending_commands) :
              LET e == pending_commands[i]
                  s == e.safe_id
              IN  RetryDue(pending_commands, s, now) =>
                      /\ shutters[s].motion = MotionOf(e.command)
                      /\ shutters[s].target_position = None]_vars

\* Position p is within 2 points of the whole-percent target.
Within2(p, target) == Abs(p - Pct(target)) <= Pct(2)

\* C34: after SET_POSITION(target) is handled for a shutter, in any state,
\* with ticks continuing and no further command or status event, the shutter
\* comes to rest within 2 points of the target: it is within 2 points when
\* the request leaves it STOPPED, and when a tick brings it to rest.
C34_SetPositionSettles ==
    [][\A s \in Shutters :
          /\ (last_op' = "set_position" /\ frame'.sp[s] # frame.sp[s]
                /\ shutters'[s].motion = "STOPPED") =>
                 Within2(shutters'[s].position, frame'.sp[s][1])
          /\ (Tick /\ frame.sp[s] # <<>> /\ shutters[s].motion # "STOPPED"
                /\ shutters'[s].motion = "STOPPED") =>
                 Within2(shutters'[s].position, frame.sp[s][1])]_vars

\* No shutter is moving and no command is pending.
Quiet ==
    /\ \A s \in Shutters : shutters[s].motion = "STOPPED"
    /\ pending_commands = <<>>

\* C35: with the tick running and no further command or status event, every
\* moving shutter eventually becomes STOPPED and every pending command is
\* eventually removed, for good: no command is retried indefinitely.
C35_EventuallyQuiet ==
    <>[]Quiet

\* The check loop has resent a command after the last event, has given it up
\* and has stopped the shutter the resend restarted.
C35_Witness ==
    /\ Quiet
    /\ last_op = "tick"
    /\ \E s \in Shutters :
          /\ shutters[s].move_start_time >= COMMAND_ACK_TIMEOUT
          /\ [shutter_id |-> s, motion |-> "STOPPED"] \in
                 {Calls(notified)[i] : i \in 1..Len(notified)}

\* C36: under every interleaving of the receive thread with the tick, a
\* command whose stop telegram has been processed (the receive thread has
\* removed its record) is not resent and its record is not armed again, and
\* the tick's removal of a timed-out record does not fail on a record the
\* receive thread has removed.
C36_NoResendAfterTelegram ==
    [][(/\ pc.tick = "retry"
        /\ frame.tick.i <= Len(frame.tick.items)
        /\ InSeq(frame.tick.items[frame.tick.i], frame.rx.popped)
        /\ ~InSeq(frame.tick.items[frame.tick.i], pending_commands)) =>
           pc'.tick \notin {"rearm", "dead"}]_vars

====
